---- MODULE Spec2Model ----
(***************************************************************************)
(* Model of genelet/sqlmeta: the schema diff engine (DiffDatabase and its  *)
(* helpers), the change sorter (SortChanges) and the dialect conversion    *)
(* functions (PG/MY/SQLite/BQ ...To... of the conversion layer).           *)
(*                                                                         *)
(* Go maps are modelled as TLA+ functions.  The order in which a `range`   *)
(* statement visits the keys of a map is unspecified in Go, so every loop  *)
(* over a map takes the visiting order as a parameter and the callers      *)
(* collect the results over all orders.                                    *)
(***************************************************************************)
EXTENDS Integers, Sequences, FiniteSets, TLC

VARIABLES
    pc,        \* "diff" | "diffed" | "sort" | "sorted" | "convert" | "converted" |
               \* "file" | "filed" | "load" | "loaded":
               \* which call is modelled and whether it returned
    current,   \* argument `current` of DiffDatabase (a MetaDatabase)
    desired,   \* argument `desired` of DiffDatabase (a MetaDatabase)
    emitted,   \* the slice `changes` as it is when SortChanges is entered
    changes,   \* the slice `changes`: argument/result of SortChanges, result of DiffDatabase
    input,     \* the conversion, file or load call: [fn |-> the function called, arg |-> its argument]
    output,    \* the value the conversion function returned, or [value, err] of a file or load function
    files      \* the file system: the content of each path that exists

vars == <<pc, current, desired, emitted, changes, input, output, files>>

-----------------------------------------------------------------------------
(* Bounds *)

\* longest table list of a snapshot built from CoreTables
MaxTables == 2

\* longest change list handed directly to SortChanges
MaxChanges == 3

\* longest column, constraint, foreign-key or index list of a dialect table
MaxList == 2

-----------------------------------------------------------------------------
(* Generic helpers *)

\* all sequences over S of length at most n
SeqsUpTo(S, n) == UNION {[1..k -> S] : k \in 0..n}

\* all orders in which the elements of S can be visited
Perms(S) ==
    {s \in [1..Cardinality(S) -> S] : \A i, j \in 1..Cardinality(S) : i # j => s[i] # s[j]}

RECURSIVE Flatten(_)
\* concatenation of a sequence of sequences
Flatten(ss) == IF ss = <<>> THEN <<>> ELSE Head(ss) \o Flatten(Tail(ss))

-----------------------------------------------------------------------------
(* Canonical schema model: values of the generated message types *)

\* a nil pointer to a message (table, column, constraint, foreign key, index)
Nil == [isNil |-> TRUE]

\* a map[string]string that is nil
NilMap == [isNil |-> TRUE, kv |-> [k \in {} |-> ""]]

\* a non-nil map[string]string with the entries of the function f
MkMap(f) == [isNil |-> FALSE, kv |-> f]

\* a nil *ObjectName
NilObjectName == [isNil |-> TRUE, Idents |-> <<>>]

\* &ObjectName{Idents: ids}
ObjectName(ids) == [isNil |-> FALSE, Idents |-> ids]

\* a nil *DataType
NilDataType == [kind |-> "nil"]

\* DataType with a payload-free TypeClause (IntData, TextData, ...)
SimpleType(k) == [kind |-> k]

\* DataType_ArrayData
ArrayType(elem) == [kind |-> "ArrayData", elem |-> elem]

\* DataType_StructData: fields is a sequence of [Name, DataType]
StructType(fields) == [kind |-> "StructData", fields |-> fields]

\* DataType_DecimalData
DecimalType(p, s) == [kind |-> "DecimalData", precision |-> p, scale |-> s]

\* a nil *anypb.Any
NilAny == [isNil |-> TRUE, typeUrl |-> "", value |-> <<>>]

\* proto.Marshal(&wrapperspb.StringValue{Value: s}): nothing for the empty
\* string (a default field is not written), else the tag of field 1 with wire
\* type 2 (0x0A), the length of the payload, and the payload
MarshalStringValue(s) == IF s = "" THEN <<>> ELSE <<10, Len(s), s>>

\* anypb.New(&wrapperspb.StringValue{Value: s})
StringAny(s) ==
    [isNil |-> FALSE, typeUrl |-> "type.googleapis.com/google.protobuf.StringValue",
     value |-> MarshalStringValue(s)]

\* &ColumnDef{...}
ColumnDef(name, dt, def, comment, cons, opts, decs) ==
    [Name |-> name, DataType |-> dt, Default |-> def, Comment |-> comment,
     Constraints |-> cons, Options |-> opts, Decorators |-> decs]

\* &TableConstraintSpec{UniqueItem: &UniqueTableConstraint{IsPrimary, Columns}}
UniqueItem(isPrimary, cols) ==
    [kind |-> "UniqueItem", IsPrimary |-> isPrimary, Columns |-> cols]

\* &TableConstraintSpec{CheckItem: stringToAny(expr)}
CheckItem(expr) == [kind |-> "CheckItem", CheckItem |-> StringAny(expr)]

\* &TableConstraintSpec{ReferenceItem: &ReferentialTableConstraint{Columns, KeyExpr, OnDelete}};
\* KeyExpr.TableName is the referenced table's name as a string
ReferenceItem(cols, table, keyCols, onDelete) ==
    [kind |-> "ReferenceItem", Columns |-> cols,
     KeyExpr |-> [TableName |-> table, Columns |-> keyCols], OnDelete |-> onDelete]

\* &TableConstraint{Name, Spec}
TableConstraint(name, spec) == [Name |-> name, Spec |-> spec]

\* TableElement_ColumnDefElement
ColumnElem(col) == [kind |-> "column", col |-> col]

\* TableElement_TableConstraintElement
ConstraintElem(con) == [kind |-> "constraint", con |-> con]

\* &MetaTable{...}
MetaTable(name, type, elems, comment, opts) ==
    [Name |-> name, Type |-> type, Elements |-> elems, Comment |-> comment, Options |-> opts]

\* a nil *MetaDatabase
NilDatabase == [isNil |-> TRUE, Name |-> "", Tables |-> <<>>]

\* &MetaDatabase{Name, Tables}
MetaDatabase(name, tables) == [isNil |-> FALSE, Name |-> name, Tables |-> tables]

\* (*MetaDatabase).GetTables: nil-safe getter
GetTables(db) == IF db.isNil THEN <<>> ELSE db.Tables

-----------------------------------------------------------------------------
(* diff_types.go: the change variants *)

AddTable(t) == [type |-> "AddTable", Table |-> t]

DropTable(tn) == [type |-> "DropTable", TableName |-> tn]

AlterTableOptions(tn, oldOpts, newOpts, oldComment, newComment) ==
    [type |-> "AlterTableOptions", TableName |-> tn, OldOptions |-> oldOpts,
     NewOptions |-> newOpts, OldComment |-> oldComment, NewComment |-> newComment]

AddColumn(tn, col) == [type |-> "AddColumn", TableName |-> tn, Column |-> col]

DropColumn(tn, name) == [type |-> "DropColumn", TableName |-> tn, ColumnName |-> name]

AlterColumn(tn, oldCol, newCol) ==
    [type |-> "AlterColumn", TableName |-> tn, OldColumn |-> oldCol, NewColumn |-> newCol]

AddConstraint(tn, con) == [type |-> "AddConstraint", TableName |-> tn, Constraint |-> con]

DropConstraint(tn, name, isFK) ==
    [type |-> "DropConstraint", TableName |-> tn, ConstraintName |-> name, IsForeignKey |-> isFK]

\* Priority() of each variant
\* Priority() in which AddConstraint is scheduled before AddTable and AddColumn
PriorityConstraintsBeforeTables(c) ==
    CASE c.type = "AddTable" -> 40
      [] c.type = "DropTable" -> 30
      [] c.type = "AlterTableOptions" -> 70
      [] c.type = "AddColumn" -> 50
      [] c.type = "DropColumn" -> 20
      [] c.type = "AlterColumn" -> 70
      [] c.type = "AddConstraint" -> 35
      [] c.type = "DropConstraint" -> IF c.IsForeignKey THEN 5 ELSE 10

\* Priority() in which DropConstraint returns 10 whether or not IsForeignKey
PriorityIgnoringForeignKey(c) ==
    CASE c.type = "AddTable" -> 40
      [] c.type = "DropTable" -> 30
      [] c.type = "AlterTableOptions" -> 70
      [] c.type = "AddColumn" -> 50
      [] c.type = "DropColumn" -> 20
      [] c.type = "AlterColumn" -> 70
      [] c.type = "AddConstraint" -> 60
      [] c.type = "DropConstraint" -> 10

Priority(c) ==
    CASE c.type = "AddTable" -> 40
      [] c.type = "DropTable" -> 30
      [] c.type = "AlterTableOptions" -> 70
      [] c.type = "AddColumn" -> 50
      [] c.type = "DropColumn" -> 20
      [] c.type = "AlterColumn" -> 70
      [] c.type = "AddConstraint" -> 60
      [] c.type = "DropConstraint" -> IF c.IsForeignKey THEN 5 ELSE 10

\* IsDestructive() of each variant
IsDestructive(c) ==
    CASE c.type = "AddTable" -> FALSE
      [] c.type = "DropTable" -> TRUE
      [] c.type = "AlterTableOptions" -> FALSE
      [] c.type = "AddColumn" -> FALSE
      [] c.type = "DropColumn" -> TRUE
      [] c.type = "AlterColumn" -> TRUE
      [] c.type = "AddConstraint" -> FALSE
      [] c.type = "DropConstraint" -> FALSE

\* changes[i] = changes[j] alone: one half of the exchange
SwapOverwriting(s, i, j) == [s EXCEPT ![i] = s[j]]

\* changes[i], changes[j] = changes[j], changes[i]
Swap(s, i, j) == [s EXCEPT ![i] = s[j], ![j] = s[i]]

RECURSIVE SortInner(_, _, _)
\* the loop over j of SortChanges for a fixed i
SortInner(s, i, j) ==
    IF j > Len(s) THEN s
    ELSE SortInner(IF Priority(s[i]) > Priority(s[j]) THEN Swap(s, i, j) ELSE s, i, j + 1)

\* SortOuter that stops after the first pass over j
SortOuterOnePass(s, i) ==
    IF i > Len(s) THEN s ELSE SortInner(s, i, i + 1)

RECURSIVE SortOuter(_, _)
\* the loop over i of SortChanges
SortOuter(s, i) ==
    IF i > Len(s) THEN s ELSE SortOuter(SortInner(s, i, i + 1), i + 1)

\* SortChanges: the slice after the in-place exchange sort
SortChanges(s) == SortOuter(s, 1)

-----------------------------------------------------------------------------
(* diff.go: helper functions *)

\* tableName: the last identifier, "" for a nil or empty name
\* tableName returning the first identifier of the chain
tableNameFirstIdent(on) ==
    IF on.isNil \/ Len(on.Idents) = 0 THEN "" ELSE on.Idents[1]

tableName(on) ==
    IF on.isNil \/ Len(on.Idents) = 0 THEN "" ELSE on.Idents[Len(on.Idents)]

\* the map built by `for _, x := range xs { if keep(x) { m[key(x)] = value(x) } }`:
\* a later element overwrites an earlier one with the same key
LastIndex(keys, k) == CHOOSE i \in 1..Len(keys) : keys[i] = k /\ \A j \in (i+1)..Len(keys) : keys[j] # k

\* tablesByName: tables keyed by simple name
tablesByName(tables) ==
    LET keys == [i \in 1..Len(tables) |-> tableName(tables[i].Name)]
    IN  [n \in {keys[i] : i \in 1..Len(tables)} |-> tables[LastIndex(keys, n)]]

\* elem.GetColumnDefElement() != nil
IsColumn(elem) == elem.kind = "column"

\* elem.GetTableConstraintElement() != nil
IsConstraint(elem) == elem.kind = "constraint"

\* columnsFromElements that stops at the first element that is no column
columnsFromElementsLeading(elems) ==
    LET idx == {i \in 1..Len(elems) : \A j \in 1..i : IsColumn(elems[j])}
        last(n) == CHOOSE i \in idx : elems[i].col.Name = n
                       /\ \A j \in idx : j > i => elems[j].col.Name # n
    IN  [n \in {elems[i].col.Name : i \in idx} |-> elems[last(n)].col]

\* columnsFromElements: columns keyed by name
columnsFromElements(elems) ==
    LET idx == {i \in 1..Len(elems) : IsColumn(elems[i])}
        last(n) == CHOOSE i \in idx : elems[i].col.Name = n
                       /\ \A j \in idx : j > i => elems[j].col.Name # n
    IN  [n \in {elems[i].col.Name : i \in idx} |-> elems[last(n)].col]

\* constraintsFromElements without the `tc.Name != ""` test
constraintsFromElementsUnnamedToo(elems) ==
    LET idx == {i \in 1..Len(elems) : IsConstraint(elems[i])}
        last(n) == CHOOSE i \in idx : elems[i].con.Name = n
                       /\ \A j \in idx : j > i => elems[j].con.Name # n
    IN  [n \in {elems[i].con.Name : i \in idx} |-> elems[last(n)].con]

\* constraintsFromElements: named table constraints keyed by name
constraintsFromElements(elems) ==
    LET idx == {i \in 1..Len(elems) : IsConstraint(elems[i]) /\ elems[i].con.Name # ""}
        last(n) == CHOOSE i \in idx : elems[i].con.Name = n
                       /\ \A j \in idx : j > i => elems[j].con.Name # n
    IN  [n \in {elems[i].con.Name : i \in idx} |-> elems[last(n)].con]

\* DataTypeEqual that compares the variant but not the payload
DataTypeEqualShallow(a, b) == a.kind = b.kind

RECURSIVE DataTypeEqual(_, _)
\* proto.Equal on two *DataType: same variant and, recursively, equal payloads
DataTypeEqual(a, b) ==
    IF a.kind # b.kind THEN FALSE
    ELSE CASE a.kind = "ArrayData" -> DataTypeEqual(a.elem, b.elem)
           [] a.kind = "StructData" ->
                /\ Len(a.fields) = Len(b.fields)
                /\ \A i \in 1..Len(a.fields) :
                      /\ a.fields[i].Name = b.fields[i].Name
                      /\ DataTypeEqual(a.fields[i].DataType, b.fields[i].DataType)
           [] a.kind = "DecimalData" -> a.precision = b.precision /\ a.scale = b.scale
           [] OTHER -> TRUE

\* AnyEqual that never finds a nil envelope equal to anything
AnyEqualNilUnequal(a, b) ==
    IF a.isNil \/ b.isNil THEN FALSE
    ELSE a.typeUrl = b.typeUrl /\ a.value = b.value

\* proto.Equal on two *anypb.Any: both nil, or both set with equal type URL and bytes
AnyEqual(a, b) ==
    IF a.isNil \/ b.isNil THEN a.isNil /\ b.isNil
    ELSE a.typeUrl = b.typeUrl /\ a.value = b.value

\* columnsEqual that accepts any default in b when a has none
columnsEqualDefaultOneWay(a, b) ==
    IF a.Name # b.Name THEN FALSE
    ELSE IF a.Comment # b.Comment THEN FALSE
    ELSE IF ~DataTypeEqual(a.DataType, b.DataType) THEN FALSE
    ELSE IF ~a.Default.isNil /\ ~AnyEqual(a.Default, b.Default) THEN FALSE
    ELSE TRUE

\* columnsEqual
columnsEqual(a, b) ==
    IF a.Name # b.Name THEN FALSE
    ELSE IF a.Comment # b.Comment THEN FALSE
    ELSE IF ~DataTypeEqual(a.DataType, b.DataType) THEN FALSE
    ELSE IF ~AnyEqual(a.Default, b.Default) THEN FALSE
    ELSE TRUE

\* mapsEqual without the length test
mapsEqualNoLen(a, b) ==
    \A k \in DOMAIN a.kv : k \in DOMAIN b.kv /\ b.kv[k] = a.kv[k]

\* mapsEqual: len() of a nil map is 0
mapsEqual(a, b) ==
    IF Cardinality(DOMAIN a.kv) # Cardinality(DOMAIN b.kv) THEN FALSE
    ELSE \A k \in DOMAIN a.kv : k \in DOMAIN b.kv /\ b.kv[k] = a.kv[k]

\* tc.Spec.GetReferenceItem() != nil
IsReference(con) == con.Spec.kind = "ReferenceItem"

-----------------------------------------------------------------------------
(* diff.go: the comparison functions.  Each takes the orders in which its  *)
(* `range` statements visit their maps.                                    *)

\* diffColumns whose second loop lacks the `!exists` test
diffColumnsAddsAll(tn, cur, des, dropOrd, addOrd, alterOrd) ==
    LET onlyCurrent(n) == n \notin DOMAIN des
        altered(n) == n \in DOMAIN cur /\ ~columnsEqual(cur[n], des[n])
        d == SelectSeq(dropOrd, onlyCurrent)
        a == addOrd
        l == SelectSeq(alterOrd, altered)
    IN  [i \in 1..Len(d) |-> DropColumn(tn, d[i])]
        \o [i \in 1..Len(a) |-> AddColumn(tn, des[a[i]])]
        \o [i \in 1..Len(l) |-> AlterColumn(tn, cur[l[i]], des[l[i]])]

\* diffColumns; dropOrd, addOrd and alterOrd are the visiting orders of its three loops
diffColumns(tn, cur, des, dropOrd, addOrd, alterOrd) ==
    LET onlyCurrent(n) == n \notin DOMAIN des
        onlyDesired(n) == n \notin DOMAIN cur
        altered(n) == n \in DOMAIN cur /\ ~columnsEqual(cur[n], des[n])
        d == SelectSeq(dropOrd, onlyCurrent)
        a == SelectSeq(addOrd, onlyDesired)
        l == SelectSeq(alterOrd, altered)
    IN  [i \in 1..Len(d) |-> DropColumn(tn, d[i])]
        \o [i \in 1..Len(a) |-> AddColumn(tn, des[a[i]])]
        \o [i \in 1..Len(l) |-> AlterColumn(tn, cur[l[i]], des[l[i]])]

\* diffConstraints; dropOrd and addOrd are the visiting orders of its two loops
diffConstraints(tn, cur, des, dropOrd, addOrd) ==
    LET onlyCurrent(n) == n \notin DOMAIN des
        onlyDesired(n) == n \notin DOMAIN cur
        d == SelectSeq(dropOrd, onlyCurrent)
        a == SelectSeq(addOrd, onlyDesired)
    IN  [i \in 1..Len(d) |-> DropConstraint(tn, d[i], IsReference(cur[d[i]]))]
        \o [i \in 1..Len(a) |-> AddConstraint(tn, des[a[i]])]

\* diffTableOptions that compares the comment only
diffTableOptionsCommentOnly(cur, des) ==
    IF cur.Comment # des.Comment
    THEN <<AlterTableOptions(des.Name, cur.Options, des.Options, cur.Comment, des.Comment)>>
    ELSE <<>>

\* the AlterTableOptions part of diffTable
diffTableOptions(cur, des) ==
    IF cur.Comment # des.Comment \/ ~mapsEqual(cur.Options, des.Options)
    THEN <<AlterTableOptions(des.Name, cur.Options, des.Options, cur.Comment, des.Comment)>>
    ELSE <<>>

\* diffTable, given what its calls of diffColumns and diffConstraints return
diffTable(cur, des, colChanges, constraintChanges) ==
    diffTableOptions(cur, des) \o colChanges \o constraintChanges

\* what diffTable can return: one list per choice of visiting orders in its callees
diffTableOutcomes(cur, des) ==
    LET currentCols == columnsFromElements(cur.Elements)
        desiredCols == columnsFromElements(des.Elements)
        currentConstraints == constraintsFromElements(cur.Elements)
        desiredConstraints == constraintsFromElements(des.Elements)
        colOutcomes ==
            {diffColumns(des.Name, currentCols, desiredCols, o1, o2, o3) :
                o1 \in Perms(DOMAIN currentCols),
                o2 \in Perms(DOMAIN desiredCols),
                o3 \in Perms(DOMAIN desiredCols)}
        constraintOutcomes ==
            {diffConstraints(des.Name, currentConstraints, desiredConstraints, o1, o2) :
                o1 \in Perms(DOMAIN currentConstraints),
                o2 \in Perms(DOMAIN desiredConstraints)}
    IN  {diffTable(cur, des, c, k) : c \in colOutcomes, k \in constraintOutcomes}

\* first loop of DiffDatabase, body for one table of current that desired lacks
dropTableChanges(currTable) ==
    LET cons == SelectSeq(currTable.Elements, IsConstraint)
    IN  [i \in 1..Len(cons) |->
            DropConstraint(currTable.Name, cons[i].con.Name, IsReference(cons[i].con))]
        \o <<DropTable(currTable.Name)>>

\* addTableChanges that also lists the new table's columns as AddColumn changes
addTableChangesWithColumns(desTable) ==
    LET cols == SelectSeq(desTable.Elements, IsColumn)
    IN  <<AddTable(desTable)>> \o [i \in 1..Len(cols) |-> AddColumn(desTable.Name, cols[i].col)]

\* second loop of DiffDatabase, body for one table of desired that current lacks
addTableChanges(desTable) == <<AddTable(desTable)>>

\* first loop of DiffDatabase without the `!exists` test: every table of current is dropped
dropLoopDroppingAll(currentTables, desiredTables, ord) ==
    Flatten([i \in 1..Len(ord) |-> dropTableChanges(currentTables[ord[i]])])

\* first loop of DiffDatabase under the visiting order ord of currentTables
dropLoop(currentTables, desiredTables, ord) ==
    LET d == SelectSeq(ord, LAMBDA n : n \notin DOMAIN desiredTables)
    IN  Flatten([i \in 1..Len(d) |-> dropTableChanges(currentTables[d[i]])])

\* second loop of DiffDatabase under the visiting order ord of desiredTables
addLoop(currentTables, desiredTables, ord) ==
    LET a == SelectSeq(ord, LAMBDA n : n \notin DOMAIN currentTables)
    IN  Flatten([i \in 1..Len(a) |-> addTableChanges(desiredTables[a[i]])])

RECURSIVE diffLoopOutcomes(_, _, _)
\* third loop of DiffDatabase over the table names b (already in visiting order):
\* what it can append, one list per choice of visiting orders inside diffTable
diffLoopOutcomes(currentTables, desiredTables, b) ==
    IF b = <<>> THEN {<<>>}
    ELSE {h \o t : h \in diffTableOutcomes(currentTables[Head(b)], desiredTables[Head(b)]),
                   t \in diffLoopOutcomes(currentTables, desiredTables, Tail(b))}

\* what the slice `changes` of DiffDatabase can be just before SortChanges(changes):
\* one list per choice of visiting orders of the maps ranged over
EmittedOutcomes(cur, des) ==
    LET currentTables == tablesByName(GetTables(cur))
        desiredTables == tablesByName(GetTables(des))
        drops == {dropLoop(currentTables, desiredTables, o) : o \in Perms(DOMAIN currentTables)}
        adds == {addLoop(currentTables, desiredTables, o) : o \in Perms(DOMAIN desiredTables)}
        diffs == UNION {diffLoopOutcomes(currentTables, desiredTables,
                                         SelectSeq(o, LAMBDA n : n \in DOMAIN currentTables)) :
                            o \in Perms(DOMAIN desiredTables)}
    IN  {d \o a \o b : d \in drops, a \in adds, b \in diffs}

-----------------------------------------------------------------------------
(* Inputs: the snapshots and change lists the calls are made with *)

IntType == SimpleType("IntData")
TextType == SimpleType("TextData")

\* a column that is only a name and a data type
PlainColumn(name, dt) == ColumnDef(name, dt, NilAny, "", <<>>, NilMap, <<>>)

ColId == PlainColumn("id", IntType)
ColEmail == PlainColumn("email", TextType)

\* columns named id that differ from ColId in exactly one field
IdVariants ==
    { PlainColumn("id", TextType),
      PlainColumn("id", NilDataType),
      PlainColumn("id", ArrayType(IntType)),
      PlainColumn("id", ArrayType(TextType)),
      PlainColumn("id", StructType(<<[Name |-> "f", DataType |-> IntType]>>)),
      PlainColumn("id", StructType(<<[Name |-> "f", DataType |-> TextType]>>)),
      PlainColumn("id", DecimalType(10, 2)),
      ColumnDef("id", IntType, StringAny("0"), "", <<>>, NilMap, <<>>),
      ColumnDef("id", IntType, StringAny("1"), "", <<>>, NilMap, <<>>),
      ColumnDef("id", IntType, NilAny, "key", <<>>, NilMap, <<>>),
      ColumnDef("id", IntType, NilAny, "", <<"NotNullItem">>, NilMap, <<>>),
      ColumnDef("id", IntType, NilAny, "", <<>>, MkMap([k \in {"IsIdentity"} |-> "true"]), <<>>),
      ColumnDef("id", IntType, NilAny, "", <<>>, NilMap, <<"AUTO_INCREMENT">>) }

UsersName == ObjectName(<<"a", "users">>)
OrdersName == ObjectName(<<"orders">>)

ConPk == TableConstraint("pk", UniqueItem(TRUE, <<"id">>))
ConPkCheck == TableConstraint("pk", CheckItem("id > 0"))
ConFkSelf == TableConstraint("fk", ReferenceItem(<<"id">>, "users", <<"id">>, "CASCADE"))
ConFkSelfEmail == TableConstraint("fk", ReferenceItem(<<"email">>, "users", <<"id">>, "NO_ACTION"))
ConUnnamed == TableConstraint("", UniqueItem(FALSE, <<"id">>))
ConFkUser == TableConstraint("fk_user", ReferenceItem(<<"id">>, "users", <<"id">>, ""))
ConFkUnnamed == TableConstraint("", ReferenceItem(<<"id">>, "users", <<"id">>, ""))

\* table a.users with the given elements and nothing else set
UsersWith(elems) == MetaTable(UsersName, "BASE TABLE", elems, "", NilMap)

\* a.users(id): the table the single-table variants depart from
UsersBase == UsersWith(<<ColumnElem(ColId)>>)

\* tables that occur in snapshots of every length up to MaxTables
CoreTables ==
    { UsersBase,
      MetaTable(OrdersName, "BASE TABLE",
                <<ColumnElem(ColId), ConstraintElem(ConFkUser), ConstraintElem(ConFkUnnamed)>>,
                "", NilMap),
      MetaTable(OrdersName, "BASE TABLE",
                <<ColumnElem(ColId), ConstraintElem(ConPk), ConstraintElem(ConUnnamed)>>,
                "", NilMap),
      MetaTable(ObjectName(<<"b", "users">>), "BASE TABLE",
                <<ColumnElem(ColId), ColumnElem(ColEmail)>>, "people", NilMap) }

\* tables that differ from UsersBase in their columns
ColumnTables ==
    {UsersWith(<<ColumnElem(c)>>) : c \in IdVariants}
    \cup { UsersWith(<<>>),
           UsersWith(<<ColumnElem(ColEmail)>>),
           UsersWith(<<ColumnElem(ColId), ColumnElem(ColEmail)>>),
           UsersWith(<<ColumnElem(ColEmail), ColumnElem(ColId)>>),
           UsersWith(<<ColumnElem(ColId), ColumnElem(PlainColumn("id", TextType))>>) }

\* tables that differ from UsersBase in their table constraints
ConstraintTables ==
    { UsersWith(<<ColumnElem(ColId), ConstraintElem(ConPk)>>),
      UsersWith(<<ColumnElem(ColId), ConstraintElem(ConPkCheck)>>),
      UsersWith(<<ColumnElem(ColId), ConstraintElem(ConFkSelf)>>),
      UsersWith(<<ColumnElem(ColId), ConstraintElem(ConFkSelfEmail)>>),
      UsersWith(<<ColumnElem(ColId), ColumnElem(ColEmail), ConstraintElem(ConFkSelfEmail)>>),
      UsersWith(<<ColumnElem(ColId), ConstraintElem(ConUnnamed)>>),
      UsersWith(<<ColumnElem(ColId), ConstraintElem(ConPk), ConstraintElem(ConFkSelf)>>),
      UsersWith(<<ColumnElem(ColId), ConstraintElem(ConFkSelf), ConstraintElem(ConPkCheck)>>),
      UsersWith(<<ColumnElem(ColId), ConstraintElem(ConPk), ConstraintElem(ConPkCheck)>>) }

\* tables that differ from UsersBase in name qualifier, type tag, comment or options
OptionTables ==
    { MetaTable(ObjectName(<<"users">>), "BASE TABLE", <<ColumnElem(ColId)>>, "", NilMap),
      MetaTable(NilObjectName, "BASE TABLE", <<ColumnElem(ColId)>>, "", NilMap),
      MetaTable(ObjectName(<<>>), "BASE TABLE", <<ColumnElem(ColId)>>, "", NilMap),
      MetaTable(UsersName, "VIEW", <<ColumnElem(ColId)>>, "", NilMap),
      MetaTable(UsersName, "BASE TABLE", <<ColumnElem(ColId)>>, "people", NilMap),
      MetaTable(UsersName, "BASE TABLE", <<ColumnElem(ColId)>>, "", MkMap([k \in {} |-> ""])),
      MetaTable(UsersName, "BASE TABLE", <<ColumnElem(ColId)>>, "",
                MkMap([k \in {"Engine"} |-> "InnoDB"])),
      MetaTable(UsersName, "BASE TABLE", <<ColumnElem(ColId)>>, "",
                MkMap([k \in {"Engine"} |-> "MyISAM"])),
      MetaTable(UsersName, "BASE TABLE", <<ColumnElem(ColId)>>, "",
                MkMap([k \in {"Charset"} |-> "InnoDB"])),
      MetaTable(UsersName, "BASE TABLE", <<ColumnElem(ColId)>>, "",
                MkMap([k \in {"Engine", "Charset"} |-> IF k = "Engine" THEN "InnoDB" ELSE "utf8"])) }

\* the snapshots DiffDatabase is called with
Snapshots ==
    {NilDatabase}
    \cup {MetaDatabase("testdb", ts) : ts \in SeqsUpTo(CoreTables, MaxTables)}
    \cup {MetaDatabase("testdb", <<t>>) : t \in ColumnTables \cup ConstraintTables \cup OptionTables}

\* the changes that occur in lists handed directly to SortChanges
SampleChanges ==
    { DropConstraint(OrdersName, "fk_user", TRUE),
      DropConstraint(OrdersName, "pk", FALSE),
      DropColumn(UsersName, "email"),
      DropTable(OrdersName),
      AddTable(UsersBase),
      AddColumn(UsersName, ColEmail),
      AddConstraint(UsersName, ConPk),
      AlterColumn(UsersName, ColId, PlainColumn("id", TextType)),
      AlterTableOptions(UsersName, NilMap, NilMap, "", "people") }

-----------------------------------------------------------------------------
(* The state machine: one call of DiffDatabase or of SortChanges *)

\* no conversion function is being called
NoCall == [fn |-> "", arg |-> Nil]

\* a file system in which no path exists
NoFiles == <<>>

Init ==
    /\ \/ /\ pc = "diff"
          /\ current \in Snapshots
          /\ desired \in Snapshots
          /\ emitted = <<>>
          /\ changes = <<>>
       \/ /\ pc = "sort"
          /\ current = NilDatabase
          /\ desired = NilDatabase
          /\ emitted \in SeqsUpTo(SampleChanges, MaxChanges)
          /\ changes = emitted
    /\ input = NoCall
    /\ output = Nil
    /\ files = NoFiles

\* DiffDatabase taking the dropped tables out of current's own table list
DiffDatabaseCallConsumingCurrent ==
    /\ pc \in {"diff", "diffed"}
    /\ \E e \in EmittedOutcomes(current, desired) :
          /\ emitted' = e
          /\ changes' = SortChanges(e)
    /\ pc' = "diffed"
    /\ current' = [current EXCEPT !.Tables =
                      SelectSeq(@, LAMBDA t : tableName(t.Name) \in DOMAIN tablesByName(GetTables(desired)))]
    /\ UNCHANGED <<desired, input, output, files>>

\* changes := DiffDatabase(current, desired); the call can be repeated on the same arguments
DiffDatabaseCall ==
    /\ pc \in {"diff", "diffed"}
    /\ \E e \in EmittedOutcomes(current, desired) :
          /\ emitted' = e
          /\ changes' = SortChanges(e)
    /\ pc' = "diffed"
    /\ UNCHANGED <<current, desired, input, output, files>>

\* SortChanges(changes) on a caller's list
SortChangesCall ==
    /\ pc = "sort"
    /\ changes' = SortChanges(changes)
    /\ pc' = "sorted"
    /\ UNCHANGED <<current, desired, emitted, input, output, files>>

Next == DiffDatabaseCall \/ SortChangesCall

Spec == Init /\ [][Next]_vars

-----------------------------------------------------------------------------
(* Vocabulary of the properties: snapshots read as schemas, and the effect *)
(* of applying a plan to a schema                                          *)

\* the simple name of a qualified name: its last segment
SimpleName(on) == IF on.isNil \/ on.Idents = <<>> THEN "" ELSE on.Idents[Len(on.Idents)]

\* the simple names of the tables of a table list
TableNames(tables) == {SimpleName(tables[i].Name) : i \in 1..Len(tables)}

\* the table of a table list that the name n resolves to (the last one of that name)
TableNamed(tables, n) ==
    LET idx == {i \in 1..Len(tables) : SimpleName(tables[i].Name) = n}
    IN  tables[CHOOSE i \in idx : \A j \in idx : j <= i]

\* the columns and the table constraints of a table, in element order
ColumnsOf(t) ==
    LET cs == SelectSeq(t.Elements, LAMBDA e : e.kind = "column")
    IN  [i \in 1..Len(cs) |-> cs[i].col]
ConstraintsOf(t) ==
    LET cs == SelectSeq(t.Elements, LAMBDA e : e.kind = "constraint")
    IN  [i \in 1..Len(cs) |-> cs[i].con]

ColumnNames(t) == {ColumnsOf(t)[i].Name : i \in 1..Len(ColumnsOf(t))}
ConstraintNames(t) == {ConstraintsOf(t)[i].Name : i \in 1..Len(ConstraintsOf(t))} \ {""}

\* the column / named constraint of a table that a name resolves to (the last one of that name)
ColumnNamed(t, n) ==
    LET cs == ColumnsOf(t)
        idx == {i \in 1..Len(cs) : cs[i].Name = n}
    IN  cs[CHOOSE i \in idx : \A j \in idx : j <= i]
ConstraintNamed(t, n) ==
    LET cs == ConstraintsOf(t)
        idx == {i \in 1..Len(cs) : cs[i].Name = n}
    IN  cs[CHOOSE i \in idx : \A j \in idx : j <= i]

\* no two elements of a sequence are equal
Distinct(s) == \A i, j \in 1..Len(s) : i # j => s[i] # s[j]

\* table simple names are unique and, per table, column names and constraint names are unique
UniqueNames(db) ==
    LET ts == GetTables(db)
    IN  /\ Distinct([i \in 1..Len(ts) |-> SimpleName(ts[i].Name)])
        /\ \A i \in 1..Len(ts) :
              /\ Distinct([k \in 1..Len(ColumnsOf(ts[i])) |-> ColumnsOf(ts[i])[k].Name])
              /\ Distinct([k \in 1..Len(ConstraintsOf(ts[i])) |-> ConstraintsOf(ts[i])[k].Name])

\* the key/value pairs of an options mapping; an absent mapping has none
Pairs(m) == {<<k, m.kv[k]>> : k \in DOMAIN m.kv}

\* how many entries of the list s satisfy P
CountOf(s, P(_)) == Cardinality({i \in 1..Len(s) : P(s[i])})

\* the table a change is about, by simple name
SubjectTable(c) ==
    IF c.type = "AddTable" THEN SimpleName(c.Table.Name) ELSE SimpleName(c.TableName)

\* a table with its element list replaced
WithElements(t, elems) == [t EXCEPT !.Elements = elems]

\* the effect of one change on one table it is about
ApplyToTable(t, c) ==
    CASE c.type = "AddColumn" -> WithElements(t, Append(t.Elements, [kind |-> "column", col |-> c.Column]))
      [] c.type = "DropColumn" ->
            WithElements(t, SelectSeq(t.Elements,
                LAMBDA e : ~(e.kind = "column" /\ e.col.Name = c.ColumnName)))
      [] c.type = "AlterColumn" ->
            WithElements(t, [i \in 1..Len(t.Elements) |->
                IF t.Elements[i].kind = "column" /\ t.Elements[i].col.Name = c.OldColumn.Name
                THEN [kind |-> "column", col |-> c.NewColumn] ELSE t.Elements[i]])
      [] c.type = "AddConstraint" ->
            WithElements(t, Append(t.Elements, [kind |-> "constraint", con |-> c.Constraint]))
      [] c.type = "DropConstraint" ->
            WithElements(t, SelectSeq(t.Elements,
                LAMBDA e : ~(e.kind = "constraint" /\ e.con.Name = c.ConstraintName)))
      [] c.type = "AlterTableOptions" ->
            [t EXCEPT !.Comment = c.NewComment, !.Options = c.NewOptions]

\* the effect of one change on a schema (a table list)
ApplyChange(schema, c) ==
    CASE c.type = "AddTable" -> Append(schema, c.Table)
      [] c.type = "DropTable" ->
            SelectSeq(schema, LAMBDA t : SimpleName(t.Name) # SimpleName(c.TableName))
      [] OTHER ->
            [i \in 1..Len(schema) |->
                IF SimpleName(schema[i].Name) = SimpleName(c.TableName)
                THEN ApplyToTable(schema[i], c) ELSE schema[i]]

RECURSIVE Replay(_, _)
\* the schema after the changes of plan have been applied in order
Replay(schema, plan) ==
    IF plan = <<>> THEN schema ELSE Replay(ApplyChange(schema, Head(plan)), Tail(plan))

\* two schemas agree on table names and, per table, on comment, options, columns
\* (comment, data type, default) and named-constraint names
Agrees(x, y) ==
    /\ TableNames(x) = TableNames(y)
    /\ \A i \in 1..Len(x), j \in 1..Len(y) :
          SimpleName(x[i].Name) = SimpleName(y[j].Name) =>
             /\ x[i].Comment = y[j].Comment
             /\ Pairs(x[i].Options) = Pairs(y[j].Options)
             /\ ColumnNames(x[i]) = ColumnNames(y[j])
             /\ \A a \in 1..Len(ColumnsOf(x[i])), b \in 1..Len(ColumnsOf(y[j])) :
                   ColumnsOf(x[i])[a].Name = ColumnsOf(y[j])[b].Name =>
                      /\ ColumnsOf(x[i])[a].Comment = ColumnsOf(y[j])[b].Comment
                      /\ ColumnsOf(x[i])[a].DataType = ColumnsOf(y[j])[b].DataType
                      /\ ColumnsOf(x[i])[a].Default = ColumnsOf(y[j])[b].Default
             /\ ConstraintNames(x[i]) = ConstraintNames(y[j])

\* DiffDatabase has returned
Returned == pc = "diffed"

-----------------------------------------------------------------------------
(* Properties *)

\* C1: for snapshots with unique table, column and constraint names, replaying the
\* returned changes in order on current yields a schema that agrees with desired
C1_Replay ==
    (Returned /\ UniqueNames(current) /\ UniqueNames(desired))
        => Agrees(Replay(GetTables(current), changes), GetTables(desired))

\* C1 witness: a plan with a table drop, a table add and changes inside a kept table was replayed
C1_Witness ==
    /\ Returned /\ UniqueNames(current) /\ UniqueNames(desired)
    /\ \E i, j \in 1..Len(changes) :
          changes[i].type = "DropTable" /\ changes[j].type = "AddConstraint"
    /\ ~Agrees(GetTables(current), GetTables(desired))
    /\ Agrees(Replay(GetTables(current), changes), GetTables(desired))

\* a list is in ascending priority order
Ascending(s) == \A i, j \in 1..Len(s) : i < j => Priority(s[i]) <= Priority(s[j])

\* C2: the list returned by DiffDatabase, and any list SortChanges has run on, is
\* sorted ascending by priority
C2_SortedByPriority == pc \in {"diffed", "sorted"} => Ascending(changes)

\* C2 witness: DiffDatabase emitted at least three changes out of priority order and returned them
C2_Witness ==
    /\ Returned
    /\ Len(emitted) >= 3
    /\ ~Ascending(emitted)
    /\ Ascending(changes)

\* every foreign key of a snapshot references a table of that snapshot
ReferencesClosed(db) ==
    \A i \in 1..Len(GetTables(db)) :
        \A k \in 1..Len(ConstraintsOf(GetTables(db)[i])) :
            LET con == ConstraintsOf(GetTables(db)[i])[k]
            IN  con.Spec.kind = "ReferenceItem"
                    => con.Spec.KeyExpr.TableName \in TableNames(GetTables(db))

\* some table of the schema carries a foreign key whose referenced table is named n
ReferencedBy(schema, n) ==
    \E i \in 1..Len(schema) :
        \E k \in 1..Len(ConstraintsOf(schema[i])) :
            LET con == ConstraintsOf(schema[i])[k]
            IN  con.Spec.kind = "ReferenceItem" /\ con.Spec.KeyExpr.TableName = n

\* C3: when the plan is applied step by step to current (all foreign keys of both
\* snapshots referencing tables of their own snapshot), no DropTable(T) is applied
\* while a foreign key referencing T is still present in the evolving schema
C3_NoDropOfReferencedTable ==
    (Returned /\ ReferencesClosed(current) /\ ReferencesClosed(desired))
        => \A i \in 1..Len(changes) :
              changes[i].type = "DropTable"
                  => ~ReferencedBy(Replay(GetTables(current), SubSeq(changes, 1, i - 1)),
                                   SimpleName(changes[i].TableName))

\* C4: DiffDatabase(X, X) returns an empty list for every snapshot X
C4_SelfDiffEmpty == (Returned /\ current = desired) => changes = <<>>

\* C4 witness: a snapshot of two tables with columns and constraints was diffed against itself
C4_Witness ==
    /\ Returned /\ current = desired
    /\ Len(GetTables(current)) >= 2
    /\ \E i \in 1..Len(GetTables(current)) : Len(ConstraintsOf(GetTables(current)[i])) >= 2
    /\ changes = <<>>

\* the simple names of the tables only in current, only in desired, and in both
OnlyCurrent == TableNames(GetTables(current)) \ TableNames(GetTables(desired))
OnlyDesired == TableNames(GetTables(desired)) \ TableNames(GetTables(current))
InBoth == TableNames(GetTables(current)) \cap TableNames(GetTables(desired))

\* the table of current / desired that a simple name resolves to
Cur(n) == TableNamed(GetTables(current), n)
Des(n) == TableNamed(GetTables(desired), n)

\* the positions of the returned list that hold a change of the given kind about table n
At(kind, n) == {i \in 1..Len(changes) : changes[i].type = kind /\ SubjectTable(changes[i]) = n}

\* C5: a table only in current yields exactly one DropConstraint per named constraint
\* (IsForeignKey iff ReferenceItem) and none for an unnamed one, exactly one DropTable
\* after all of them, and no other change of that table
C5_DroppedTable ==
    Returned =>
      \A n \in OnlyCurrent :
        /\ \A k \in ConstraintNames(Cur(n)) :
              Cardinality({i \in At("DropConstraint", n) : changes[i].ConstraintName = k})
                  = CountOf(ConstraintsOf(Cur(n)), LAMBDA c : c.Name = k)
        /\ \A i \in At("DropConstraint", n) :
              /\ changes[i].ConstraintName # ""
              /\ \E k \in 1..Len(ConstraintsOf(Cur(n))) :
                    /\ ConstraintsOf(Cur(n))[k].Name = changes[i].ConstraintName
                    /\ changes[i].IsForeignKey = (ConstraintsOf(Cur(n))[k].Spec.kind = "ReferenceItem")
        /\ Cardinality(At("DropTable", n)) = 1
        /\ \A i \in At("DropConstraint", n), j \in At("DropTable", n) : i < j
        /\ \A kind \in {"DropColumn", "AlterColumn", "AddColumn", "AddConstraint", "AlterTableOptions"} :
              At(kind, n) = {}

\* C6: a table name only in desired yields exactly one AddTable carrying the desired
\* table and no other change; from an empty current, n distinctly named tables
\* yield exactly n changes, all AddTable
C6_AddedTable ==
    Returned =>
      /\ \A n \in OnlyDesired :
            /\ Cardinality({i \in At("AddTable", n) : changes[i].Table = Des(n)}) = 1
            /\ Cardinality({i \in 1..Len(changes) : SubjectTable(changes[i]) = n}) = 1
      /\ (GetTables(current) = <<>>
            /\ Distinct([i \in 1..Len(GetTables(desired)) |-> SimpleName(GetTables(desired)[i].Name)]))
           => /\ Len(changes) = Len(GetTables(desired))
              /\ \A i \in 1..Len(changes) : changes[i].type = "AddTable"

\* C6 witness: two tables with columns and constraints were added to an empty current
C6_Witness ==
    /\ Returned
    /\ GetTables(current) = <<>>
    /\ Cardinality(OnlyDesired) = 2
    /\ \A n \in OnlyDesired : Len(ColumnsOf(Des(n))) >= 1
    /\ \E n \in OnlyDesired : Len(ConstraintsOf(Des(n))) >= 1
    /\ Len(changes) = 2

\* C7: in a table present in both snapshots, a column name only in current yields
\* exactly one DropColumn (destructive), one only in desired exactly one AddColumn
\* carrying the desired column (not destructive), and no other name an Add or Drop;
\* users(id) against users(id, email) gives exactly [AddColumn{users, email}]
C7_ColumnAddDrop ==
    Returned =>
      /\ \A n \in InBoth :
            /\ \A c \in ColumnNames(Cur(n)) \ ColumnNames(Des(n)) :
                  Cardinality({i \in At("DropColumn", n) : changes[i].ColumnName = c}) = 1
            /\ \A c \in ColumnNames(Des(n)) \ ColumnNames(Cur(n)) :
                  /\ Cardinality({i \in At("AddColumn", n) : changes[i].Column.Name = c}) = 1
                  /\ \E i \in At("AddColumn", n) : changes[i].Column = ColumnNamed(Des(n), c)
            /\ \A i \in At("DropColumn", n) :
                  /\ changes[i].ColumnName \in ColumnNames(Cur(n)) \ ColumnNames(Des(n))
                  /\ IsDestructive(changes[i])
            /\ \A i \in At("AddColumn", n) :
                  /\ changes[i].Column.Name \in ColumnNames(Des(n)) \ ColumnNames(Cur(n))
                  /\ ~IsDestructive(changes[i])
      /\ (/\ current = MetaDatabase("testdb", <<UsersBase>>)
          /\ desired = MetaDatabase("testdb", <<UsersWith(<<ColumnElem(ColId), ColumnElem(ColEmail)>>)>>))
           => changes = <<AddColumn(UsersName, ColEmail)>>

\* C7 witness: a table kept by the diff lost one column and gained another
C7_Witness ==
    /\ Returned
    /\ \E n \in InBoth : At("DropColumn", n) # {} /\ At("AddColumn", n) # {}

\* two columns differ in comment, data type or default value
ColumnsDiffer(a, b) ==
    a.Comment # b.Comment \/ a.DataType # b.DataType \/ a.Default # b.Default

\* C8: for a column name on both sides of a table present in both snapshots, exactly
\* one AlterColumn carrying the old and the new column is emitted iff the columns
\* differ in comment, data type (by value) or default; otherwise none
C8_ColumnAlter ==
    Returned =>
      \A n \in InBoth :
        /\ \A c \in ColumnNames(Cur(n)) \cap ColumnNames(Des(n)) :
              LET alters == {i \in At("AlterColumn", n) : changes[i].NewColumn.Name = c}
              IN  IF ColumnsDiffer(ColumnNamed(Cur(n), c), ColumnNamed(Des(n), c))
                  THEN /\ Cardinality(alters) = 1
                       /\ \A i \in alters :
                             /\ changes[i].OldColumn = ColumnNamed(Cur(n), c)
                             /\ changes[i].NewColumn = ColumnNamed(Des(n), c)
                  ELSE alters = {}
        /\ \A i \in At("AlterColumn", n) :
              changes[i].NewColumn.Name \in ColumnNames(Cur(n)) \cap ColumnNames(Des(n))

\* C8 witness: two array columns that differ only in their element type were diffed
C8_Witness ==
    /\ Returned
    /\ \E i \in 1..Len(changes) :
          /\ changes[i].type = "AlterColumn"
          /\ changes[i].OldColumn.DataType.kind = "ArrayData"
          /\ changes[i].NewColumn.DataType.kind = "ArrayData"

\* C9: for a table present in both snapshots, exactly one AlterTableOptions carrying
\* old and new comment and options is emitted iff the comments differ or the options
\* differ as sets of key/value pairs (absent = empty); otherwise none
C9_TableOptions ==
    Returned =>
      \A n \in InBoth :
        IF Cur(n).Comment # Des(n).Comment \/ Pairs(Cur(n).Options) # Pairs(Des(n).Options)
        THEN /\ Cardinality(At("AlterTableOptions", n)) = 1
             /\ \A i \in At("AlterTableOptions", n) :
                   /\ changes[i].OldComment = Cur(n).Comment
                   /\ changes[i].NewComment = Des(n).Comment
                   /\ changes[i].OldOptions = Cur(n).Options
                   /\ changes[i].NewOptions = Des(n).Options
        ELSE At("AlterTableOptions", n) = {}

\* C9 witness: two tables whose options have one key more on the desired side were
\* diffed and an AlterTableOptions with unchanged comment was returned
C9_Witness ==
    /\ Returned
    /\ \E i \in 1..Len(changes) :
          /\ changes[i].type = "AlterTableOptions"
          /\ changes[i].OldComment = changes[i].NewComment
          /\ Pairs(changes[i].OldOptions) # {}
          /\ Pairs(changes[i].OldOptions) \subseteq Pairs(changes[i].NewOptions)

-----------------------------------------------------------------------------
(* C11: the fixed priority table *)

\* the row of the table a change falls in
KindOf(c) ==
    IF c.type = "DropConstraint"
    THEN (IF c.IsForeignKey THEN "DropConstraint(foreign key)" ELSE "DropConstraint(other)")
    ELSE c.type

\* the table of the specification: kind |-> <<priority, destructive>>
PriorityTable ==
    [k \in {"DropConstraint(foreign key)", "DropConstraint(other)", "DropColumn",
            "DropTable", "AddTable", "AddColumn", "AddConstraint", "AlterColumn",
            "AlterTableOptions"} |->
        CASE k = "DropConstraint(foreign key)" -> <<5, FALSE>>
          [] k = "DropConstraint(other)" -> <<10, FALSE>>
          [] k = "DropColumn" -> <<20, TRUE>>
          [] k = "DropTable" -> <<30, TRUE>>
          [] k = "AddTable" -> <<40, FALSE>>
          [] k = "AddColumn" -> <<50, FALSE>>
          [] k = "AddConstraint" -> <<60, FALSE>>
          [] k = "AlterColumn" -> <<70, TRUE>>
          [] k = "AlterTableOptions" -> <<70, FALSE>>]

\* C11: every change DiffDatabase builds and every change handed to SortChanges
\* answers Priority() and IsDestructive() with the row of the fixed table for
\* its kind, whatever table, column or constraint it carries.
C11_PriorityTable ==
    \A i \in 1..Len(emitted) :
        <<Priority(emitted[i]), IsDestructive(emitted[i])>> = PriorityTable[KindOf(emitted[i])]

\* a diff that built both a foreign-key and a non-foreign-key DropConstraint
\* next to a change of another kind
C11_Witness ==
    /\ Returned
    /\ \E i, j, k \in 1..Len(emitted) :
          /\ KindOf(emitted[i]) = "DropConstraint(foreign key)"
          /\ KindOf(emitted[j]) = "DropConstraint(other)"
          /\ KindOf(emitted[k]) = "AddTable"

-----------------------------------------------------------------------------
(* C12: determinism of the returned sequence *)

\* C12: calling DiffDatabase again on the same current and desired returns the
\* same changes in the same order as the call before, whatever order the
\* lookup maps were visited in.
C12_SameSequenceOnRerun ==
    [][(pc = "diffed" /\ pc' = "diffed" /\ current' = current /\ desired' = desired)
          => changes' = changes]_vars

-----------------------------------------------------------------------------
(* C13: stability of SortChanges *)

\* the changes of s that have priority p, in the order they have in s
WithPriority(s, p) ==
    LET HasP(c) == Priority(c) = p
    IN SelectSeq(s, HasP)

\* C13: after SortChanges, the changes of each priority stand in the same
\* relative order as in the list that was handed to it.
C13_StableSort ==
    pc \in {"sorted", "diffed"} =>
        \A p \in {Priority(emitted[i]) : i \in 1..Len(emitted)} :
            WithPriority(changes, p) = WithPriority(emitted, p)

-----------------------------------------------------------------------------
(* C14: tables are matched by simple name *)

\* the tables of both snapshots
InputTables ==
    {GetTables(current)[i] : i \in 1..Len(GetTables(current))}
    \cup {GetTables(desired)[i] : i \in 1..Len(GetTables(desired))}

C14_EmptyNameReached ==
    /\ Returned
    /\ \E n \in InBoth :
          /\ n = ""
          /\ Cur(n).Name = NilObjectName
          /\ Des(n).Name = ObjectName(<<>>)

-----------------------------------------------------------------------------
(* C15: table identity by the full identifier chain *)

\* the full names of the tables of a table list
FullNames(tables) == {tables[i].Name : i \in 1..Len(tables)}

\* C15: a table of current whose full identifier chain is the name of no table
\* of desired is dropped, and a table of desired whose full identifier chain
\* is the name of no table of current is added (a.users of current and
\* b.users of desired are two tables).
C15_FullNameIdentity ==
    Returned =>
      /\ \A t \in FullNames(GetTables(current)) \ FullNames(GetTables(desired)) :
            \E i \in 1..Len(changes) : changes[i].type = "DropTable" /\ changes[i].TableName = t
      /\ \A t \in FullNames(GetTables(desired)) \ FullNames(GetTables(current)) :
            \E i \in 1..Len(changes) : changes[i].type = "AddTable" /\ changes[i].Table.Name = t

-----------------------------------------------------------------------------
(* C16: the inputs are not written *)

\* C16: no call changes current or desired (table lists, tables, element
\* lists, columns, constraints and option mappings keep their values), and the
\* list built by DiffDatabase before sorting holds the same changes as the
\* returned one: SortChanges only reorders that list.
C16_InputsUnchanged ==
    [][/\ current' = current
       /\ desired' = desired
       /\ pc' = "diffed" =>
             \A c \in {emitted'[i] : i \in 1..Len(emitted')} \cup {changes'[i] : i \in 1..Len(changes')} :
                 CountOf(emitted', LAMBDA x : x = c) = CountOf(changes', LAMBDA x : x = c)]_vars

\* C16 witness: DiffDatabase returned from two non-empty snapshots, one of whose
\* tables it dropped, and sorting moved the changes it had built
C16_Witness ==
    /\ Returned
    /\ OnlyCurrent # {}
    /\ GetTables(desired) # <<>>
    /\ changes # emitted

-----------------------------------------------------------------------------
(* C17: add-phase safety *)

\* the local columns a table constraint names
LocalColumns(con) ==
    IF con.Spec.kind \in {"UniqueItem", "ReferenceItem"}
    THEN {con.Spec.Columns[i] : i \in 1..Len(con.Spec.Columns)}
    ELSE {}

\* every constraint of db names only columns of its own table and, if it is a
\* foreign key, a table of db
ConstraintsResolve(db) ==
    \A i \in 1..Len(GetTables(db)) :
        LET t == GetTables(db)[i]
        IN  \A k \in 1..Len(ConstraintsOf(t)) :
                /\ LocalColumns(ConstraintsOf(t)[k]) \subseteq ColumnNames(t)
                /\ ConstraintsOf(t)[k].Spec.kind = "ReferenceItem"
                      => ConstraintsOf(t)[k].Spec.KeyExpr.TableName \in TableNames(GetTables(db))

\* the schema the i-th change of the returned plan is applied to
SchemaBefore(i) == Replay(GetTables(current), SubSeq(changes, 1, i - 1))

\* C17: when the returned plan is applied to current step by step and the
\* constraints of desired name only columns of their own table and tables of
\* desired, every AddConstraint finds its table, its local columns and, for a
\* foreign key, the referenced table in the schema it is applied to, and every
\* AddColumn finds its table.
C17_AddPhaseSafety ==
    (Returned /\ ConstraintsResolve(desired)) =>
      \A i \in 1..Len(changes) :
        /\ changes[i].type = "AddColumn"
              => SubjectTable(changes[i]) \in TableNames(SchemaBefore(i))
        /\ changes[i].type = "AddConstraint"
              => /\ SubjectTable(changes[i]) \in TableNames(SchemaBefore(i))
                 /\ LocalColumns(changes[i].Constraint)
                       \subseteq ColumnNames(TableNamed(SchemaBefore(i), SubjectTable(changes[i])))
                 /\ changes[i].Constraint.Spec.kind = "ReferenceItem"
                       => changes[i].Constraint.Spec.KeyExpr.TableName \in TableNames(SchemaBefore(i))

\* C17 witness: a foreign key was added whose referenced table is not in
\* current and is created by an AddTable of the same plan
C17_Witness ==
    /\ Returned /\ ConstraintsResolve(desired)
    /\ \E i \in 1..Len(changes) :
          /\ changes[i].type = "AddConstraint"
          /\ changes[i].Constraint.Spec.kind = "ReferenceItem"
          /\ changes[i].Constraint.Spec.KeyExpr.TableName \notin TableNames(GetTables(current))
          /\ \E j \in 1..(i - 1) :
                changes[j].type = "AddTable"
                    /\ SubjectTable(changes[j]) = changes[i].Constraint.Spec.KeyExpr.TableName

\* C17 witness for local columns: a constraint was added on a column that is
\* not in current and is created by an AddColumn of the same plan
C17_ColumnAddedFirst ==
    /\ Returned /\ ConstraintsResolve(desired)
    /\ \E i \in 1..Len(changes) :
          /\ changes[i].type = "AddConstraint"
          /\ \E j \in 1..(i - 1) :
                /\ changes[j].type = "AddColumn"
                /\ SubjectTable(changes[j]) = SubjectTable(changes[i])
                /\ changes[j].Column.Name \in LocalColumns(changes[i].Constraint)

-----------------------------------------------------------------------------
(* The dialect conversion layer: shared helpers *)

\* strings.ToUpper on the strings of the model; every string not listed has
\* no lower-case letter and is returned as it is
ToUpper(s) ==
    CASE s = "primary" -> "PRIMARY"
      [] s = "Primary" -> "PRIMARY"
      [] s = "uq_email" -> "UQ_EMAIL"
      [] s = "idx_name" -> "IDX_NAME"
      [] s = "cascade" -> "CASCADE"
      [] s = "set null" -> "SET NULL"
      [] s = "full" -> "FULL"
      [] s = "required" -> "REQUIRED"
      [] OTHER -> s

RECURSIVE Join(_, _)
\* strings.Join(elems, sep)
Join(elems, sep) ==
    IF elems = <<>> THEN ""
    ELSE IF Len(elems) = 1 THEN elems[1]
    ELSE elems[1] \o sep \o Join(Tail(elems), sep)

\* stringToAny packing the empty string like any other
stringToAnyPackingEmpty(s) == StringAny(s)

\* stringToAny: nil for the empty string, else the string packed as a StringValue
stringToAny(s) == IF s = "" THEN NilAny ELSE StringAny(s)

\* formatObjectName: the identifiers joined by ".", "" for a nil name
formatObjectName(o) == IF o.isNil THEN "" ELSE Join(o.Idents, ".")

\* mapReferentialAction
mapReferentialAction(s) ==
    CASE ToUpper(s) = "CASCADE" -> "ReferentialAction_Cascade"
      [] ToUpper(s) = "SET NULL" -> "ReferentialAction_SetNull"
      [] ToUpper(s) = "SET DEFAULT" -> "ReferentialAction_SetDefault"
      [] ToUpper(s) = "RESTRICT" -> "ReferentialAction_Restrict"
      [] ToUpper(s) = "NO ACTION" -> "ReferentialAction_NoAction"
      [] OTHER -> "ReferentialAction_Unknown"

\* mapMatchOption
mapMatchOption(s) ==
    CASE ToUpper(s) = "FULL" -> "MatchOption_Full"
      [] ToUpper(s) = "PARTIAL" -> "MatchOption_Partial"
      [] ToUpper(s) = "SIMPLE" -> "MatchOption_Simple"
      [] OTHER -> "MatchOption_Unknown"

\* m := make(map[string]string); then m[k] = v for each <<cond, k, v>> of
\* puts, in order, whose cond holds
MakeOptions(puts) ==
    LET set == {i \in 1..Len(puts) : puts[i][1]}
        keys == {puts[i][2] : i \in set}
    IN  MkMap([k \in keys |->
                  puts[CHOOSE i \in set : puts[i][2] = k /\ \A j \in set : puts[j][2] = k => j <= i][3]])

\* &ColumnConstraint{Name: "PRIMARY KEY", Spec: UniqueItem{IsPrimaryKey: true}}
PrimaryKeyColumnConstraint ==
    [Name |-> "PRIMARY KEY", Spec |-> [kind |-> "UniqueItem", IsPrimaryKey |-> TRUE]]

\* &ColumnConstraint{Spec: NotNullItem}
NotNullColumnConstraint == [Name |-> "", Spec |-> [kind |-> "NotNullItem"]]

\* &ReferentialTableConstraint{Columns, KeyExpr, OnUpdate, OnDelete, Match} as a constraint spec
ReferentialTableConstraint(cols, table, keyCols, onUpdate, onDelete, match) ==
    [kind |-> "ReferenceItem", Columns |-> cols,
     KeyExpr |-> [TableName |-> table, Columns |-> keyCols],
     OnUpdate |-> onUpdate, OnDelete |-> onDelete, Match |-> match]

\* &UniqueTableConstraint{IsPrimary, Columns, IndexName} as a constraint spec
UniqueTableConstraint(isPrimary, cols, indexName) ==
    [kind |-> "UniqueItem", IsPrimary |-> isPrimary, Columns |-> cols, IndexName |-> indexName]

\* &TableConstraintSpec{CheckItem: any}
CheckItemOf(any) == [kind |-> "CheckItem", CheckItem |-> any]

-----------------------------------------------------------------------------
(* The dialect conversion layer: Postgres *)

\* the elements appended for a list of converted constraints: one
\* TableConstraintElement per entry that is not nil
ConstraintElements(converted) ==
    LET kept == SelectSeq(converted, LAMBDA tc : tc # Nil)
    IN  [i \in 1..Len(kept) |-> ConstraintElem(kept[i])]

\* PGColumnToColumnDef
PGColumnToColumnDef(c) ==
    IF c = Nil THEN Nil
    ELSE ColumnDef(c.Name, c.DataType, stringToAny(c.DefaultValue), c.Comment,
                   (IF c.IsPrimaryKey THEN <<PrimaryKeyColumnConstraint>> ELSE <<>>)
                       \o (IF ~c.IsNullable THEN <<NotNullColumnConstraint>> ELSE <<>>),
                   MakeOptions(<< <<c.IsIdentity, "IsIdentity", "true">>,
                                  <<c.IsIdentity, "IdentityGeneration", c.IdentityGeneration>>,
                                  <<c.IsGenerated, "IsGenerated", "true">>,
                                  <<c.IsGenerated, "GenerationExpression", c.GenerationExpression>>,
                                  <<c.IdentitySequence # "", "IdentitySequence", c.IdentitySequence>> >>),
                   <<>>)

\* PGConstraintToTableConstraint keeping an exclusion constraint as a unique one
PGConstraintToTableConstraintKeepingExclusion(c) ==
    IF c = Nil THEN Nil
    ELSE CASE c.Type = "p" -> TableConstraint(c.Name, UniqueItem(TRUE, c.Columns))
           [] c.Type \in {"u", "x"} -> TableConstraint(c.Name, UniqueItem(FALSE, c.Columns))
           [] c.Type = "c" -> TableConstraint(c.Name, CheckItemOf(stringToAny(c.Definition)))
           [] OTHER -> Nil

\* PGConstraintToTableConstraint
PGConstraintToTableConstraint(c) ==
    IF c = Nil THEN Nil
    ELSE CASE c.Type = "p" -> TableConstraint(c.Name, UniqueItem(TRUE, c.Columns))
           [] c.Type = "u" -> TableConstraint(c.Name, UniqueItem(FALSE, c.Columns))
           [] c.Type = "c" -> TableConstraint(c.Name, CheckItemOf(stringToAny(c.Definition)))
           [] OTHER -> Nil

\* PGForeignKeyToTableConstraint
PGForeignKeyToTableConstraint(fk) ==
    IF fk = Nil THEN Nil
    ELSE TableConstraint(fk.Name,
             ReferentialTableConstraint(fk.LocalColumns, formatObjectName(fk.ForeignTable),
                                        fk.ForeignColumns, mapReferentialAction(fk.OnUpdate),
                                        mapReferentialAction(fk.OnDelete),
                                        mapMatchOption(fk.MatchOption)))

\* PGTableToMetaTable writing HasRowSecurity as "true" or "false" in every table
PGTableToMetaTableFlagAlwaysWritten(t) ==
    IF t = Nil THEN Nil
    ELSE MetaTable(t.Name, t.TableType,
                   [i \in 1..Len(t.Columns) |-> ColumnElem(PGColumnToColumnDef(t.Columns[i]))]
                       \o ConstraintElements([i \in 1..Len(t.Constraints) |->
                                                 PGConstraintToTableConstraint(t.Constraints[i])])
                       \o ConstraintElements([i \in 1..Len(t.ForeignKeys) |->
                                                 PGForeignKeyToTableConstraint(t.ForeignKeys[i])]),
                   t.Comment,
                   MakeOptions(<< <<t.Owner # "", "Owner", t.Owner>>,
                                  <<t.Persistence # "", "Persistence", t.Persistence>>,
                                  <<TRUE, "HasRowSecurity",
                                    IF t.HasRowSecurity THEN "true" ELSE "false">>,
                                  <<t.RowSecurityForced, "RowSecurityForced", "true">> >>))

\* PGTableToMetaTable: columns, then constraints, then foreign keys; the loop
\* over t.Indexes has an empty body and appends nothing
PGTableToMetaTable(t) ==
    IF t = Nil THEN Nil
    ELSE MetaTable(t.Name, t.TableType,
                   [i \in 1..Len(t.Columns) |-> ColumnElem(PGColumnToColumnDef(t.Columns[i]))]
                       \o ConstraintElements([i \in 1..Len(t.Constraints) |->
                                                 PGConstraintToTableConstraint(t.Constraints[i])])
                       \o ConstraintElements([i \in 1..Len(t.ForeignKeys) |->
                                                 PGForeignKeyToTableConstraint(t.ForeignKeys[i])]),
                   t.Comment,
                   MakeOptions(<< <<t.Owner # "", "Owner", t.Owner>>,
                                  <<t.Persistence # "", "Persistence", t.Persistence>>,
                                  <<t.HasRowSecurity, "HasRowSecurity", "true">>,
                                  <<t.RowSecurityForced, "RowSecurityForced", "true">> >>))

-----------------------------------------------------------------------------
(* The dialect conversion layer: MySQL *)

\* MYColumnToColumnDef
MYColumnToColumnDef(c) ==
    IF c = Nil THEN Nil
    ELSE ColumnDef(c.Name, c.DataType, stringToAny(c.DefaultValue), c.Comment,
                   (IF c.IsPrimaryKey THEN <<PrimaryKeyColumnConstraint>> ELSE <<>>)
                       \o (IF ~c.IsNullable THEN <<NotNullColumnConstraint>> ELSE <<>>),
                   MakeOptions(<< <<c.Charset # "", "Charset", c.Charset>>,
                                  <<c.Collation # "", "Collation", c.Collation>>,
                                  <<c.IsUnsigned, "IsUnsigned", "true">> >>),
                   IF c.AutoIncrement THEN <<"AutoIncrement_AutoIncrementConfirm">> ELSE <<>>)

\* MYForeignKeyToTableConstraint (Match is left unset)
MYForeignKeyToTableConstraint(fk) ==
    IF fk = Nil THEN Nil
    ELSE TableConstraint(fk.Name,
             [kind |-> "ReferenceItem", Columns |-> fk.LocalColumns,
              KeyExpr |-> [TableName |-> formatObjectName(fk.ForeignTable),
                           Columns |-> fk.ForeignColumns],
              OnUpdate |-> mapReferentialAction(fk.OnUpdate),
              OnDelete |-> mapReferentialAction(fk.OnDelete)])

\* MYIndexToTableConstraint: primary is decided by the index name
MYIndexToTableConstraint(idx) ==
    IF idx = Nil THEN Nil
    ELSE LET isPrimary == ToUpper(idx.Name) = "PRIMARY"
         IN  IF ~isPrimary /\ ~idx.IsUnique THEN Nil
             ELSE TableConstraint(idx.Name, UniqueTableConstraint(isPrimary, idx.Columns, idx.Name))

\* MYTableToMetaTable appending the promoted indexes before the foreign keys
MYTableToMetaTableIndexesFirst(t) ==
    IF t = Nil THEN Nil
    ELSE MetaTable(t.Name, "",
                   [i \in 1..Len(t.Columns) |-> ColumnElem(MYColumnToColumnDef(t.Columns[i]))]
                       \o ConstraintElements(
                              LET idxs == SelectSeq(t.Indexes,
                                              LAMBDA idx : idx.IsUnique \/ ToUpper(idx.IndexType) = "PRIMARY")
                              IN  [i \in 1..Len(idxs) |-> MYIndexToTableConstraint(idxs[i])])
                       \o ConstraintElements([i \in 1..Len(t.ForeignKeys) |->
                                                 MYForeignKeyToTableConstraint(t.ForeignKeys[i])]),
                   t.Comment,
                   MakeOptions(<< <<t.Engine # "", "Engine", t.Engine>>,
                                  <<t.Charset # "", "Charset", t.Charset>>,
                                  <<t.Collation # "", "Collation", t.Collation>> >>))

\* MYTableToMetaTable: columns, then foreign keys, then the indexes that are
\* unique or whose IndexType is PRIMARY
MYTableToMetaTable(t) ==
    IF t = Nil THEN Nil
    ELSE MetaTable(t.Name, "",
                   [i \in 1..Len(t.Columns) |-> ColumnElem(MYColumnToColumnDef(t.Columns[i]))]
                       \o ConstraintElements([i \in 1..Len(t.ForeignKeys) |->
                                                 MYForeignKeyToTableConstraint(t.ForeignKeys[i])])
                       \o ConstraintElements(
                              LET idxs == SelectSeq(t.Indexes,
                                              LAMBDA idx : idx.IsUnique \/ ToUpper(idx.IndexType) = "PRIMARY")
                              IN  [i \in 1..Len(idxs) |-> MYIndexToTableConstraint(idxs[i])]),
                   t.Comment,
                   MakeOptions(<< <<t.Engine # "", "Engine", t.Engine>>,
                                  <<t.Charset # "", "Charset", t.Charset>>,
                                  <<t.Collation # "", "Collation", t.Collation>> >>))

-----------------------------------------------------------------------------
(* The dialect conversion layer: SQLite and BigQuery *)

\* SQLiteColumnToColumnDef appending the NotNullItem whatever IsNullable is
SQLiteColumnToColumnDefAlwaysNotNull(c) ==
    IF c = Nil THEN Nil
    ELSE ColumnDef(c.Name, c.DataType, stringToAny(c.DefaultValue), "",
                   (IF c.IsPrimaryKey THEN <<PrimaryKeyColumnConstraint>> ELSE <<>>)
                       \o <<NotNullColumnConstraint>>,
                   NilMap, <<>>)

\* SQLiteColumnToColumnDef (Comment and Options are left unset)
SQLiteColumnToColumnDef(c) ==
    IF c = Nil THEN Nil
    ELSE ColumnDef(c.Name, c.DataType, stringToAny(c.DefaultValue), "",
                   (IF c.IsPrimaryKey THEN <<PrimaryKeyColumnConstraint>> ELSE <<>>)
                       \o (IF ~c.IsNullable THEN <<NotNullColumnConstraint>> ELSE <<>>),
                   NilMap, <<>>)

\* SQLiteTableToMetaTable: the name becomes a one-identifier ObjectName
SQLiteTableToMetaTable(t) ==
    IF t = Nil THEN Nil
    ELSE MetaTable(ObjectName(<<t.Name>>), t.Type,
                   [i \in 1..Len(t.Columns) |-> ColumnElem(SQLiteColumnToColumnDef(t.Columns[i]))],
                   "", MakeOptions(<<>>))

\* BQColumnToColumnDef returning an empty column, not nil, for a nil column
BQColumnToColumnDefEmptyForNil(c) ==
    IF c = Nil THEN ColumnDef("", NilDataType, NilAny, "", <<>>, NilMap, <<>>)
    ELSE ColumnDef(c.Name, c.DataType, NilAny, c.Description,
                   IF ToUpper(c.Mode) = "REQUIRED" THEN <<NotNullColumnConstraint>> ELSE <<>>,
                   MakeOptions(<<>>), <<>>)

\* BQColumnToColumnDef (Default is left unset)
BQColumnToColumnDef(c) ==
    IF c = Nil THEN Nil
    ELSE ColumnDef(c.Name, c.DataType, NilAny, c.Description,
                   IF ToUpper(c.Mode) = "REQUIRED" THEN <<NotNullColumnConstraint>> ELSE <<>>,
                   MakeOptions(<<>>), <<>>)

\* BQTableToMetaTable
BQTableToMetaTable(t) ==
    IF t = Nil THEN Nil
    ELSE MetaTable(t.Name, "",
                   [i \in 1..Len(t.Schema) |-> ColumnElem(BQColumnToColumnDef(t.Schema[i]))],
                   t.Description, MakeOptions(<<>>))

-----------------------------------------------------------------------------
(* Dialect values handed to the conversion functions *)

\* &PGColumn{...}: column id of TestPGTableToMetaTable, and departures from it
PGColumnId ==
    [Name |-> "id", DataType |-> IntType, DefaultValue |-> "nextval('seq')",
     Comment |-> "Primary Key", IsNullable |-> FALSE, IsPrimaryKey |-> TRUE,
     IsIdentity |-> TRUE, IdentityGeneration |-> "", IsGenerated |-> FALSE,
     GenerationExpression |-> "", IdentitySequence |-> ""]

PGColumnEmail ==
    [PGColumnId EXCEPT !.Name = "email", !.DataType = TextType, !.DefaultValue = "",
                       !.Comment = "", !.IsNullable = TRUE, !.IsPrimaryKey = FALSE,
                       !.IsIdentity = FALSE]

PGColumns ==
    { PGColumnId, PGColumnEmail,
      [PGColumnEmail EXCEPT !.IsNullable = FALSE],
      [PGColumnEmail EXCEPT !.IsPrimaryKey = TRUE],
      [PGColumnId EXCEPT !.IdentityGeneration = "ALWAYS", !.IdentitySequence = "users_id_seq"],
      [PGColumnEmail EXCEPT !.IsGenerated = TRUE, !.GenerationExpression = "lower(name)"],
      [PGColumnEmail EXCEPT !.IsGenerated = TRUE],
      [PGColumnEmail EXCEPT !.GenerationExpression = "lower(name)", !.IdentityGeneration = "ALWAYS"],
      [PGColumnEmail EXCEPT !.DataType = NilDataType, !.DefaultValue = "''"] }

\* &PGConstraint{Name, Type, Columns, Definition}
PGConstraint(name, type, cols, definition) ==
    [Name |-> name, Type |-> type, Columns |-> cols, Definition |-> definition]

PGConstraints ==
    { PGConstraint("users_pkey", "p", <<"id">>, ""),
      PGConstraint("uq_email", "u", <<"email">>, ""),
      PGConstraint("ck_id", "c", <<>>, "id > 0"),
      PGConstraint("ck_empty", "c", <<>>, ""),
      PGConstraint("ex_span", "x", <<"id">>, ""),
      PGConstraint("", "u", <<"id", "email">>, ""),
      PGConstraint("tr_audit", "t", <<>>, "") }

\* &PGForeignKey{...} / &MYForeignKey{...} (which has no MatchOption)
ForeignKey(name, cols, table, keyCols, onUpdate, onDelete, match) ==
    [Name |-> name, LocalColumns |-> cols, ForeignTable |-> table, ForeignColumns |-> keyCols,
     OnUpdate |-> onUpdate, OnDelete |-> onDelete, MatchOption |-> match]

ForeignKeys ==
    { ForeignKey("fk_user", <<"id">>, ObjectName(<<"public", "users">>), <<"id">>,
                 "NO ACTION", "cascade", "full"),
      ForeignKey("fk_owner", <<"email">>, ObjectName(<<"users">>), <<"email">>,
                 "RESTRICT", "set null", "SIMPLE"),
      ForeignKey("", <<"id">>, NilObjectName, <<>>, "", "SET DEFAULT", "") }

\* &PGIndex{Name, IsPrimary, IsUnique, Columns}
PGIndex(name, isPrimary, isUnique, cols) ==
    [Name |-> name, IsPrimary |-> isPrimary, IsUnique |-> isUnique, Columns |-> cols]

PGIndexes ==
    { PGIndex("users_pkey", TRUE, TRUE, <<"id">>),
      PGIndex("uq_email", FALSE, TRUE, <<"email">>),
      PGIndex("idx_name", FALSE, FALSE, <<"email">>) }

\* &PGTable{...}: the table of TestPGTableToMetaTable without its columns
PGTableBase ==
    [Name |-> ObjectName(<<"public", "users">>), TableType |-> "", Comment |-> "User table",
     Owner |-> "postgres", Persistence |-> "", HasRowSecurity |-> FALSE,
     RowSecurityForced |-> FALSE, Columns |-> <<>>, Constraints |-> <<>>,
     ForeignKeys |-> <<>>, Indexes |-> <<>>]

PGTables ==
    {[PGTableBase EXCEPT !.Columns = cs] : cs \in SeqsUpTo({PGColumnId, PGColumnEmail}, MaxList)}
    \cup {[PGTableBase EXCEPT !.Columns = <<PGColumnId, PGColumnEmail>>, !.Constraints = cons,
                              !.ForeignKeys = fks, !.Indexes = idxs] :
              cons \in SeqsUpTo({c \in PGConstraints : c.Name \in {"users_pkey", "ck_id", "ex_span"}}, MaxList),
              fks \in SeqsUpTo({f \in ForeignKeys : f.Name = "fk_user"}, MaxList),
              idxs \in SeqsUpTo(PGIndexes, MaxList)}
    \cup { [PGTableBase EXCEPT !.Name = NilObjectName, !.TableType = "VIEW", !.Comment = "",
                               !.Owner = ""],
           [PGTableBase EXCEPT !.Persistence = "p", !.HasRowSecurity = TRUE],
           [PGTableBase EXCEPT !.Persistence = "u", !.RowSecurityForced = TRUE],
           [PGTableBase EXCEPT !.HasRowSecurity = TRUE, !.RowSecurityForced = TRUE] }

\* &MYColumn{...}
MYColumnId ==
    [Name |-> "id", DataType |-> IntType, DefaultValue |-> "", Comment |-> "",
     Charset |-> "", Collation |-> "", IsUnsigned |-> TRUE, IsPrimaryKey |-> TRUE,
     AutoIncrement |-> TRUE, IsNullable |-> FALSE]

MYColumnEmail ==
    [MYColumnId EXCEPT !.Name = "email", !.DataType = TextType, !.DefaultValue = "''",
                       !.Comment = "login", !.Charset = "utf8mb4",
                       !.Collation = "utf8mb4_bin", !.IsUnsigned = FALSE,
                       !.IsPrimaryKey = FALSE, !.AutoIncrement = FALSE, !.IsNullable = TRUE]

MYColumns ==
    { MYColumnId, MYColumnEmail,
      [MYColumnEmail EXCEPT !.IsNullable = FALSE, !.Charset = ""],
      [MYColumnEmail EXCEPT !.Collation = "", !.DefaultValue = ""],
      [MYColumnId EXCEPT !.IsUnsigned = FALSE, !.AutoIncrement = FALSE],
      [MYColumnId EXCEPT !.IsPrimaryKey = FALSE, !.IsNullable = TRUE] }

\* &MYIndex{Name, IndexType, IsUnique, Columns} as loadMYIndexes builds it: the
\* primary key is the unique index named PRIMARY
MYIndex(name, indexType, isUnique, cols) ==
    [Name |-> name, IndexType |-> indexType, IsUnique |-> isUnique, Columns |-> cols]

MYIndexes ==
    { MYIndex("PRIMARY", "BTREE", TRUE, <<"id">>),
      MYIndex("uq_email", "BTREE", TRUE, <<"email">>),
      MYIndex("idx_name", "BTREE", FALSE, <<"email", "id">>),
      MYIndex("Primary", "", TRUE, <<"id", "email">>) }

\* &MYTable{...}
MYTableBase ==
    [Name |-> ObjectName(<<"shop", "users">>), Comment |-> "", Engine |-> "InnoDB",
     Charset |-> "", Collation |-> "", Columns |-> <<>>, ForeignKeys |-> <<>>,
     Indexes |-> <<>>]

MYTables ==
    {[MYTableBase EXCEPT !.Columns = cs] : cs \in SeqsUpTo({MYColumnId, MYColumnEmail}, MaxList)}
    \cup {[MYTableBase EXCEPT !.Columns = <<MYColumnId, MYColumnEmail>>, !.ForeignKeys = fks,
                              !.Indexes = idxs] :
              fks \in SeqsUpTo({f \in ForeignKeys : f.Name # ""}, MaxList),
              idxs \in SeqsUpTo(MYIndexes, MaxList)}
    \cup { [MYTableBase EXCEPT !.Name = NilObjectName, !.Comment = "people", !.Engine = ""],
           [MYTableBase EXCEPT !.Charset = "utf8mb4", !.Collation = "utf8mb4_bin"] }

\* &SQLiteColumn{...}: column age of TestSQLiteColumnToColumnDef, and departures from it
SQLiteColumnAge ==
    [Name |-> "age", DataType |-> IntType, DefaultValue |-> "18", IsPrimaryKey |-> FALSE,
     IsNullable |-> TRUE]

SQLiteColumns ==
    { SQLiteColumnAge,
      [SQLiteColumnAge EXCEPT !.IsNullable = FALSE],
      [SQLiteColumnAge EXCEPT !.Name = "id", !.DefaultValue = "", !.IsPrimaryKey = TRUE],
      [SQLiteColumnAge EXCEPT !.Name = "id", !.DefaultValue = "", !.IsPrimaryKey = TRUE,
                              !.IsNullable = FALSE] }

\* &SQLiteTable{Name, Type, Columns}
SQLiteTables ==
    {[Name |-> n, Type |-> ty, Columns |-> cs] :
        n \in {"users", ""}, ty \in {"table", "view"}, cs \in SeqsUpTo(SQLiteColumns, MaxList)}

\* &BQColumn{Name, DataType, Description, Mode}
BQColumns ==
    {[Name |-> "id", DataType |-> dt, Description |-> d, Mode |-> m] :
        dt \in {IntType, ArrayType(TextType)}, d \in {"", "key"},
        m \in {"REQUIRED", "required", "NULLABLE", "REPEATED", ""}}

\* &BQTable{Name, Description, Schema}
BQTables ==
    {[Name |-> n, Description |-> d, Schema |-> cs] :
        n \in {ObjectName(<<"proj", "ds", "users">>), NilObjectName}, d \in {"", "people"},
        cs \in SeqsUpTo({c \in BQColumns : c.DataType = IntType /\ c.Description = ""
                                               /\ c.Mode \in {"REQUIRED", "NULLABLE"}}, MaxList)}

\* the conversion functions and the arguments each is called with: a nil
\* pointer or one of the values above
ConversionCalls ==
    [fn : {"PGTableToMetaTable"}, arg : {Nil} \cup PGTables]
    \cup [fn : {"PGColumnToColumnDef"}, arg : {Nil} \cup PGColumns]
    \cup [fn : {"PGConstraintToTableConstraint"}, arg : {Nil} \cup PGConstraints]
    \cup [fn : {"PGForeignKeyToTableConstraint"}, arg : {Nil} \cup ForeignKeys]
    \cup [fn : {"MYTableToMetaTable"}, arg : {Nil} \cup MYTables]
    \cup [fn : {"MYColumnToColumnDef"}, arg : {Nil} \cup MYColumns]
    \cup [fn : {"MYForeignKeyToTableConstraint"}, arg : {Nil} \cup ForeignKeys]
    \cup [fn : {"MYIndexToTableConstraint"}, arg : {Nil} \cup MYIndexes]
    \cup [fn : {"SQLiteTableToMetaTable"}, arg : {Nil} \cup SQLiteTables]
    \cup [fn : {"SQLiteColumnToColumnDef"}, arg : {Nil} \cup SQLiteColumns]
    \cup [fn : {"BQTableToMetaTable"}, arg : {Nil} \cup BQTables]
    \cup [fn : {"BQColumnToColumnDef"}, arg : {Nil} \cup BQColumns]

-----------------------------------------------------------------------------
(* The state machine of the conversion layer: one call of one function *)

ConvertInit ==
    /\ pc = "convert"
    /\ input \in ConversionCalls
    /\ output = Nil
    /\ current = NilDatabase
    /\ desired = NilDatabase
    /\ emitted = <<>>
    /\ changes = <<>>
    /\ files = NoFiles

\* one action per conversion function: output := fn(input.arg)
PGTableToMetaTableCall ==
    /\ pc = "convert"
    /\ input.fn = "PGTableToMetaTable"
    /\ output' = PGTableToMetaTable(input.arg)
    /\ pc' = "converted"
    /\ UNCHANGED <<current, desired, emitted, changes, input, files>>

PGColumnToColumnDefCall ==
    /\ pc = "convert"
    /\ input.fn = "PGColumnToColumnDef"
    /\ output' = PGColumnToColumnDef(input.arg)
    /\ pc' = "converted"
    /\ UNCHANGED <<current, desired, emitted, changes, input, files>>

PGConstraintToTableConstraintCall ==
    /\ pc = "convert"
    /\ input.fn = "PGConstraintToTableConstraint"
    /\ output' = PGConstraintToTableConstraint(input.arg)
    /\ pc' = "converted"
    /\ UNCHANGED <<current, desired, emitted, changes, input, files>>

PGForeignKeyToTableConstraintCall ==
    /\ pc = "convert"
    /\ input.fn = "PGForeignKeyToTableConstraint"
    /\ output' = PGForeignKeyToTableConstraint(input.arg)
    /\ pc' = "converted"
    /\ UNCHANGED <<current, desired, emitted, changes, input, files>>

MYTableToMetaTableCall ==
    /\ pc = "convert"
    /\ input.fn = "MYTableToMetaTable"
    /\ output' = MYTableToMetaTable(input.arg)
    /\ pc' = "converted"
    /\ UNCHANGED <<current, desired, emitted, changes, input, files>>

MYColumnToColumnDefCall ==
    /\ pc = "convert"
    /\ input.fn = "MYColumnToColumnDef"
    /\ output' = MYColumnToColumnDef(input.arg)
    /\ pc' = "converted"
    /\ UNCHANGED <<current, desired, emitted, changes, input, files>>

MYForeignKeyToTableConstraintCall ==
    /\ pc = "convert"
    /\ input.fn = "MYForeignKeyToTableConstraint"
    /\ output' = MYForeignKeyToTableConstraint(input.arg)
    /\ pc' = "converted"
    /\ UNCHANGED <<current, desired, emitted, changes, input, files>>

MYIndexToTableConstraintCall ==
    /\ pc = "convert"
    /\ input.fn = "MYIndexToTableConstraint"
    /\ output' = MYIndexToTableConstraint(input.arg)
    /\ pc' = "converted"
    /\ UNCHANGED <<current, desired, emitted, changes, input, files>>

SQLiteTableToMetaTableCall ==
    /\ pc = "convert"
    /\ input.fn = "SQLiteTableToMetaTable"
    /\ output' = SQLiteTableToMetaTable(input.arg)
    /\ pc' = "converted"
    /\ UNCHANGED <<current, desired, emitted, changes, input, files>>

SQLiteColumnToColumnDefCall ==
    /\ pc = "convert"
    /\ input.fn = "SQLiteColumnToColumnDef"
    /\ output' = SQLiteColumnToColumnDef(input.arg)
    /\ pc' = "converted"
    /\ UNCHANGED <<current, desired, emitted, changes, input, files>>

BQTableToMetaTableCall ==
    /\ pc = "convert"
    /\ input.fn = "BQTableToMetaTable"
    /\ output' = BQTableToMetaTable(input.arg)
    /\ pc' = "converted"
    /\ UNCHANGED <<current, desired, emitted, changes, input, files>>

BQColumnToColumnDefCall ==
    /\ pc = "convert"
    /\ input.fn = "BQColumnToColumnDef"
    /\ output' = BQColumnToColumnDef(input.arg)
    /\ pc' = "converted"
    /\ UNCHANGED <<current, desired, emitted, changes, input, files>>

ConvertNext ==
    \/ PGTableToMetaTableCall
    \/ PGColumnToColumnDefCall
    \/ PGConstraintToTableConstraintCall
    \/ PGForeignKeyToTableConstraintCall
    \/ MYTableToMetaTableCall
    \/ MYColumnToColumnDefCall
    \/ MYForeignKeyToTableConstraintCall
    \/ MYIndexToTableConstraintCall
    \/ SQLiteTableToMetaTableCall
    \/ SQLiteColumnToColumnDefCall
    \/ BQTableToMetaTableCall
    \/ BQColumnToColumnDefCall

ConvertSpec == ConvertInit /\ [][ConvertNext]_vars

-----------------------------------------------------------------------------
(* C18: nil in, nil out *)

\* a conversion function has returned
Converted == pc = "converted"

\* C18: each of the twelve conversion functions, called with a nil pointer,
\* returns a nil pointer (the functions have no error result).
C18_NilInNilOut == (Converted /\ input.arg = Nil) => output = Nil

\* C18 witness: a column converter was called with nil and returned nil
C18_Witness ==
    /\ Converted
    /\ input = [fn |-> "BQColumnToColumnDef", arg |-> Nil]
    /\ output = Nil

-----------------------------------------------------------------------------
(* C19: element order of a converted table *)

\* a table converter has returned a table
TableConverted ==
    /\ Converted
    /\ input.fn \in {"PGTableToMetaTable", "MYTableToMetaTable", "SQLiteTableToMetaTable",
                     "BQTableToMetaTable"}
    /\ input.arg # Nil

\* the column list of the dialect table that was converted
SourceColumns == IF input.fn = "BQTableToMetaTable" THEN input.arg.Schema ELSE input.arg.Columns

\* an element that is a foreign-key constraint
IsForeignKeyElement(e) == e.kind = "constraint" /\ e.con.Spec.kind = "ReferenceItem"

\* an element that is an index promoted to a constraint: a UniqueItem that
\* records the index it was made from
IsPromotedIndex(e) ==
    /\ e.kind = "constraint"
    /\ e.con.Spec.kind = "UniqueItem"
    /\ "IndexName" \in DOMAIN e.con.Spec

\* an element that is a table constraint of neither of these two sorts
IsPlainConstraint(e) == e.kind = "constraint" /\ ~IsForeignKeyElement(e) /\ ~IsPromotedIndex(e)

\* C19: the elements of a converted table are its columns, one per source
\* column and in source order, followed by constraints only; among these every
\* constraint that is neither a foreign key nor a promoted index stands before
\* every foreign key, and every foreign key before every promoted index.
C19_ElementOrder ==
    TableConverted =>
      LET e == output.Elements
      IN  /\ Len(e) >= Len(SourceColumns)
          /\ \A i \in 1..Len(e) :
                IF i <= Len(SourceColumns)
                THEN e[i].kind = "column" /\ e[i].col.Name = SourceColumns[i].Name
                ELSE e[i].kind = "constraint"
          /\ \A i, j \in 1..Len(e) :
                i < j => /\ ~(IsForeignKeyElement(e[i]) /\ IsPlainConstraint(e[j]))
                         /\ ~(IsPromotedIndex(e[i]) /\ IsForeignKeyElement(e[j]))

\* C19 witness: a MySQL table with two different columns, a foreign key and a
\* unique index was converted
C19_Witness ==
    /\ TableConverted
    /\ input.fn = "MYTableToMetaTable"
    /\ Len(SourceColumns) = 2 /\ SourceColumns[1].Name # SourceColumns[2].Name
    /\ \E i, j \in 1..Len(output.Elements) :
          IsForeignKeyElement(output.Elements[i]) /\ IsPromotedIndex(output.Elements[j])

\* C19 witness for Postgres: a table with columns, a primary-key constraint and
\* a foreign key was converted
C19_PostgresReached ==
    /\ TableConverted
    /\ input.fn = "PGTableToMetaTable"
    /\ Len(SourceColumns) = 2
    /\ \E i, j \in 1..Len(output.Elements) :
          IsPlainConstraint(output.Elements[i]) /\ IsForeignKeyElement(output.Elements[j])

-----------------------------------------------------------------------------
(* C20: promotion of unique and primary indexes *)

\* the index is the primary index of its table: Postgres flags it, MySQL names it PRIMARY
IsPrimaryIndex(idx) ==
    IF "IsPrimary" \in DOMAIN idx THEN idx.IsPrimary ELSE idx.Name \in {"PRIMARY", "Primary", "primary"}

\* the converted table holds a UniqueItem constraint made from the index
PromotedIn(table, idx) ==
    \E i \in 1..Len(table.Elements) :
        /\ table.Elements[i].kind = "constraint"
        /\ table.Elements[i].con.Name = idx.Name
        /\ table.Elements[i].con.Spec.kind = "UniqueItem"
        /\ table.Elements[i].con.Spec.Columns = idx.Columns
        /\ table.Elements[i].con.Spec.IsPrimary = IsPrimaryIndex(idx)

\* C20: in a converted Postgres or MySQL table every index that is unique or
\* primary appears as a UniqueItem constraint with the index's name and
\* columns and with IsPrimary set exactly for the primary index, and the
\* table has as many promoted-index elements as it has such indexes (an index
\* that is neither unique nor primary adds none).
C20_IndexPromotion ==
    (TableConverted /\ input.fn \in {"PGTableToMetaTable", "MYTableToMetaTable"}) =>
      LET idxs == input.arg.Indexes
          promoted == {i \in 1..Len(idxs) : idxs[i].IsUnique \/ IsPrimaryIndex(idxs[i])}
      IN  /\ \A i \in promoted : PromotedIn(output, idxs[i])
          /\ CountOf(output.Elements, IsPromotedIndex) = Cardinality(promoted)

-----------------------------------------------------------------------------
(* C21: NotNullItem of a converted column *)

\* the dialect columns that were converted and the column each became: the
\* argument of a column converter, or the columns of the argument of a table
\* converter with the column elements of the result
ConvertedColumns ==
    IF ~Converted \/ input.arg = Nil THEN {}
    ELSE IF input.fn \in {"PGColumnToColumnDef", "MYColumnToColumnDef",
                          "SQLiteColumnToColumnDef", "BQColumnToColumnDef"}
         THEN {<<input.arg, output>>}
    ELSE IF TableConverted
         THEN {<<SourceColumns[i], output.Elements[i].col>> : i \in 1..Len(SourceColumns)}
    ELSE {}

\* the dialect column is not nullable: BigQuery says so by mode REQUIRED (in
\* any letter case), the other dialects by IsNullable
NotNullable(c) ==
    IF "Mode" \in DOMAIN c THEN c.Mode \in {"REQUIRED", "required"} ELSE ~c.IsNullable

\* the dialect column is flagged as primary key (BigQuery has no such flag)
FlaggedPrimaryKey(c) == IF "IsPrimaryKey" \in DOMAIN c THEN c.IsPrimaryKey ELSE FALSE

\* how many constraints of the converted column are a NotNullItem
NotNullItems(col) == CountOf(col.Constraints, LAMBDA k : k.Spec.kind = "NotNullItem")

\* C21: a converted column carries a NotNullItem constraint (exactly one)
\* if and only if the dialect column is not nullable, and a nullable column
\* that is not a primary key has an empty constraint list.
C21_NotNullItem ==
    \A p \in ConvertedColumns :
        /\ NotNullItems(p[2]) = IF NotNullable(p[1]) THEN 1 ELSE 0
        /\ (~NotNullable(p[1]) /\ ~FlaggedPrimaryKey(p[1])) => p[2].Constraints = <<>>

\* C21 witness: a MySQL table with a not-nullable and a nullable column was
\* converted, the first with and the second without a NotNullItem
C21_Witness ==
    /\ TableConverted
    /\ input.fn = "MYTableToMetaTable"
    /\ \E p, q \in ConvertedColumns :
          /\ NotNullable(p[1]) /\ NotNullItems(p[2]) = 1
          /\ ~NotNullable(q[1]) /\ q[2].Constraints = <<>>

-----------------------------------------------------------------------------
(* C22: the options mapping of a converted table or column *)

\* the dialect tables that were converted and the table each became
ConvertedTables == IF TableConverted THEN {<<input.arg, output>>} ELSE {}

\* the boolean flags and the string attributes that go into an options mapping
\* under their own name
OptionFlags == {"HasRowSecurity", "RowSecurityForced", "IsIdentity", "IsGenerated", "IsUnsigned"}
OptionAttributes == {"Owner", "Persistence", "Engine", "Charset", "Collation"}

\* the options mapping of the converted value has the flags and attributes of
\* the dialect value, and each only when it is set
OptionsFollow(src, conv) ==
    /\ \A f \in OptionFlags \cap DOMAIN src :
          /\ (f \in DOMAIN conv.Options.kv) = src[f]
          /\ src[f] => conv.Options.kv[f] = "true"
    /\ \A a \in OptionAttributes \cap DOMAIN src :
          /\ (a \in DOMAIN conv.Options.kv) = (src[a] # "")
          /\ src[a] # "" => conv.Options.kv[a] = src[a]

\* C22: in the options mapping of a converted table or column, the key of a
\* boolean flag of the dialect value is present if and only if the flag is
\* true, with value "true", and the key of a string attribute is present if
\* and only if the attribute is non-empty, with the attribute's value.
C22_OptionsMapping ==
    /\ \A p \in ConvertedTables : OptionsFollow(p[1], p[2])
    /\ \A p \in ConvertedColumns : OptionsFollow(p[1], p[2])

\* C22 witness: a Postgres table with an owner, a persistence, row security
\* on and not forced was converted
C22_Witness ==
    /\ TableConverted
    /\ input.fn = "PGTableToMetaTable"
    /\ input.arg.Owner # "" /\ input.arg.Persistence # ""
    /\ input.arg.HasRowSecurity /\ ~input.arg.RowSecurityForced
    /\ DOMAIN output.Options.kv = {"Owner", "Persistence", "HasRowSecurity"}

\* C22 witness for columns: a MySQL column with a charset, no collation and
\* not unsigned was converted
C22_ColumnReached ==
    /\ Converted
    /\ input.fn = "MYColumnToColumnDef" /\ input.arg # Nil
    /\ input.arg.Charset # "" /\ input.arg.Collation = "" /\ ~input.arg.IsUnsigned
    /\ DOMAIN output.Options.kv = {"Charset"}

-----------------------------------------------------------------------------
(* C23: round trip of a default value *)

\* the dialect column has a default string (BigQuery columns have none)
HasDefaultField(c) == "DefaultValue" \in DOMAIN c

\* any.UnmarshalTo(&wrapperspb.StringValue{}): fails unless the envelope is
\* tagged as a StringValue and its bytes are empty or one well-formed field 1
UnmarshalToStringValue(any) ==
    IF any.isNil \/ any.typeUrl # "type.googleapis.com/google.protobuf.StringValue"
    THEN [ok |-> FALSE, Value |-> ""]
    ELSE IF any.value = <<>> THEN [ok |-> TRUE, Value |-> ""]
    ELSE IF Len(any.value) = 3 /\ any.value[1] = 10 /\ any.value[2] = Len(any.value[3])
         THEN [ok |-> TRUE, Value |-> any.value[3]]
    ELSE [ok |-> FALSE, Value |-> ""]

-----------------------------------------------------------------------------
(* file_loader.go: loading and saving snapshots *)

\* a path is the sequence of the parts of its file name between the dots
PathString(path) == Join(path, ".")

\* filepath.Ext: the suffix starting at the last dot, "" when there is no dot
Ext(path) == IF Len(path) < 2 THEN "" ELSE "." \o path[Len(path)]

\* strings.ToLower on the extensions the paths of the model carry
ToLower(s) ==
    CASE s = ".JSON" -> ".json"
      [] s = ".PB" -> ".pb"
      [] s = ".TextPB" -> ".textpb"
      [] s = ".YAML" -> ".yaml"
      [] OTHER -> s

\* the bytes of a file: the wire format, the message type and the message they encode
FileData(format, kind, message) == [format |-> format, kind |-> kind, message |-> message]

\* bytes no codec parses
Garbage == FileData("garbage", "", Nil)

\* Marshal of a codec: a nil message marshals like an empty one
Marshal(format, db) ==
    FileData(format, "MetaDatabase", IF db.isNil THEN MetaDatabase("", <<>>) ELSE db)

\* Unmarshal of a codec into a message of type kind: whether it returns no error
Unmarshals(format, kind, data) == data.format = format /\ data.kind = kind

\* os.ReadFile: the error for a path that does not exist
ReadFileError(path) == <<"open ", PathString(path), ": no such file or directory">>

\* os.WriteFile: the error for a path that cannot be opened for writing
WriteFileError(path) == <<"open ", PathString(path), ": permission denied">>

\* fmt.Errorf("<prefix>%w", err) and fmt.Errorf("<prefix>%s<suffix>", s)
Errorf(prefix, rest) == <<prefix>> \o rest

\* what a loader returns
Loaded(value, err) == [value |-> value, err |-> err]

\* LoadMetaDatabaseFromFile(path) in the file system fs
LoadMetaDatabaseFromFile(path, fs) ==
    IF path \notin DOMAIN fs
    THEN Loaded(Nil, Errorf("reading file: ", ReadFileError(path)))
    ELSE LET data == fs[path]
             ext == ToLower(Ext(path))
         IN  CASE ext \in {".textpb", ".txtpb", ".pbtxt"} ->
                    IF Unmarshals("prototext", "MetaDatabase", data)
                    THEN Loaded(data.message, <<>>)
                    ELSE Loaded(Nil, Errorf("parsing text proto: ", <<"syntax error">>))
               [] ext = ".json" ->
                    IF Unmarshals("protojson", "MetaDatabase", data)
                    THEN Loaded(data.message, <<>>)
                    ELSE Loaded(Nil, Errorf("parsing JSON: ", <<"syntax error">>))
               [] ext \in {".pb", ".bin"} ->
                    IF Unmarshals("proto", "MetaDatabase", data)
                    THEN Loaded(data.message, <<>>)
                    ELSE Loaded(Nil, Errorf("parsing binary proto: ", <<"cannot parse invalid wire-format data">>))
               [] OTHER ->
                    Loaded(Nil, Errorf("unknown file extension: ",
                                       <<ext, " (supported: .textpb, .json, .pb)">>))

\* LoadMetaTableFromFile(path) in the file system fs
LoadMetaTableFromFile(path, fs) ==
    IF path \notin DOMAIN fs
    THEN Loaded(Nil, Errorf("reading file: ", ReadFileError(path)))
    ELSE LET data == fs[path]
             ext == ToLower(Ext(path))
         IN  CASE ext \in {".textpb", ".txtpb", ".pbtxt"} ->
                    IF Unmarshals("prototext", "MetaTable", data)
                    THEN Loaded(data.message, <<>>)
                    ELSE Loaded(Nil, Errorf("parsing text proto: ", <<"syntax error">>))
               [] ext = ".json" ->
                    IF Unmarshals("protojson", "MetaTable", data)
                    THEN Loaded(data.message, <<>>)
                    ELSE Loaded(Nil, Errorf("parsing JSON: ", <<"syntax error">>))
               [] ext \in {".pb", ".bin"} ->
                    IF Unmarshals("proto", "MetaTable", data)
                    THEN Loaded(data.message, <<>>)
                    ELSE Loaded(Nil, Errorf("parsing binary proto: ", <<"cannot parse invalid wire-format data">>))
               [] OTHER ->
                    Loaded(Nil, Errorf("unknown file extension: ", <<ext>>))

\* what SaveMetaDatabaseToFile returns and leaves behind
Saved(err, fs) == [err |-> err, files |-> fs]

\* os.WriteFile(path, data, 0644): the file is created or replaced (writable), or
\* cannot be opened and the file system stays as it is
WriteFile(path, data, fs, writable) ==
    IF writable
    THEN Saved(<<>>, [p \in DOMAIN fs \cup {path} |-> IF p = path THEN data ELSE fs[p]])
    ELSE Saved(WriteFileError(path), fs)

\* SaveMetaDatabaseToFile(db, path) in the file system fs
SaveMetaDatabaseToFile(db, path, fs, writable) ==
    LET ext == ToLower(Ext(path))
    IN  CASE ext \in {".textpb", ".txtpb", ".pbtxt"} ->
               WriteFile(path, Marshal("prototext", db), fs, writable)
          [] ext = ".json" ->
               WriteFile(path, Marshal("protojson", db), fs, writable)
          [] ext \in {".pb", ".bin"} ->
               WriteFile(path, Marshal("proto", db), fs, writable)
          [] OTHER ->
               Saved(Errorf("unknown file extension: ", <<ext>>), fs)

(* the files and calls of the file specification *)

Paths ==
    { <<"schema", "textpb">>, <<"schema", "txtpb">>, <<"schema", "pbtxt">>,
      <<"schema", "json">>, <<"schema", "pb">>, <<"schema", "bin">>,
      <<"schema", "JSON">>, <<"schema", "PB">>, <<"schema", "TextPB">>,
      <<"users", "table", "json">>, <<"schema", "json", "bak">>,
      <<"schema", "yaml">>, <<"schema", "YAML">>, <<"schema">> }

Formats == {"prototext", "protojson", "proto"}

SavedDatabases == {NilDatabase, MetaDatabase("testdb", <<>>), MetaDatabase("testdb", <<UsersBase>>)}

FileContents ==
    {Garbage}
    \cup {Marshal(f, db) : f \in Formats, db \in SavedDatabases}
    \cup {FileData(f, "MetaTable", UsersBase) : f \in Formats}

FileSystems(path) == {NoFiles} \cup {[p \in {path} |-> data] : data \in FileContents}

FileCalls ==
    [fn : {"LoadMetaDatabaseFromFile", "LoadMetaTableFromFile"}, arg : [path : Paths]]
    \cup [fn : {"SaveMetaDatabaseToFile"}, arg : [path : Paths, db : SavedDatabases]]

FileInit ==
    /\ pc = "file"
    /\ input \in FileCalls
    /\ files \in FileSystems(input.arg.path)
    /\ output = Nil
    /\ current = NilDatabase
    /\ desired = NilDatabase
    /\ emitted = <<>>
    /\ changes = <<>>

LoadMetaDatabaseFromFileCall ==
    /\ pc = "file"
    /\ input.fn = "LoadMetaDatabaseFromFile"
    /\ output' = LoadMetaDatabaseFromFile(input.arg.path, files)
    /\ pc' = "filed"
    /\ UNCHANGED <<current, desired, emitted, changes, input, files>>

LoadMetaTableFromFileCall ==
    /\ pc = "file"
    /\ input.fn = "LoadMetaTableFromFile"
    /\ output' = LoadMetaTableFromFile(input.arg.path, files)
    /\ pc' = "filed"
    /\ UNCHANGED <<current, desired, emitted, changes, input, files>>

SaveMetaDatabaseToFileCall ==
    /\ pc = "file"
    /\ input.fn = "SaveMetaDatabaseToFile"
    /\ \E writable \in BOOLEAN :
          LET r == SaveMetaDatabaseToFile(input.arg.db, input.arg.path, files, writable)
          IN  /\ output' = [value |-> Nil, err |-> r.err]
              /\ files' = r.files
    /\ pc' = "filed"
    /\ UNCHANGED <<current, desired, emitted, changes, input>>

FileNext ==
    \/ LoadMetaDatabaseFromFileCall
    \/ LoadMetaTableFromFileCall
    \/ SaveMetaDatabaseToFileCall

FileSpec == FileInit /\ [][FileNext]_vars

-----------------------------------------------------------------------------
(* C24: the codec follows the lower-cased extension *)

\* a file function has returned
Filed == pc = "filed"

\* the codec the documentation assigns to a lower-cased extension, "" for the others
CodecOf(ext) ==
    CASE ext \in {".textpb", ".txtpb", ".pbtxt"} -> "prototext"
      [] ext = ".json" -> "protojson"
      [] ext \in {".pb", ".bin"} -> "proto"
      [] OTHER -> ""

\* the error message has the string s as one of its parts
Names(err, s) == \E i \in 1..Len(err) : err[i] = s

\* C24: a step of LoadMetaDatabaseFromFile, LoadMetaTableFromFile or
\* SaveMetaDatabaseToFile on a path whose lower-cased extension is one of
\* .textpb/.txtpb/.pbtxt, .json, .pb/.bin reads or writes the file with the
\* codec of that extension (a successful load returns the message of a file
\* in that format, a successful save leaves a file in that format); on a path
\* with any other extension the step returns an error that names the
\* lower-cased extension and no snapshot, and leaves the file system as it was.
C24_CodecFromExtension ==
    [][ (pc = "file" /\ pc' = "filed") =>
          LET path == input.arg.path
              ext == ToLower(Ext(path))
          IN  IF CodecOf(ext) # ""
              THEN output'.err = <<>> =>
                     IF input.fn = "SaveMetaDatabaseToFile"
                     THEN /\ path \in DOMAIN files'
                          /\ files'[path].format = CodecOf(ext)
                     ELSE /\ files[path].format = CodecOf(ext)
                          /\ output'.value = files[path].message
                          /\ files' = files
              ELSE /\ output'.err # <<>>
                   /\ Names(output'.err, ext)
                   /\ output'.value = Nil
                   /\ files' = files ]_vars

\* a loader was called on a path with an unknown extension where no file is
C24_MissingFileUnknownExtension ==
    /\ Filed
    /\ input.fn = "LoadMetaDatabaseFromFile"
    /\ input.arg.path = <<"schema", "YAML">>
    /\ files = NoFiles

\* a save to a path with an unknown extension returned
C24_SaveRefused ==
    /\ Filed
    /\ input.fn = "SaveMetaDatabaseToFile"
    /\ CodecOf(ToLower(Ext(input.arg.path))) = ""
    /\ files # NoFiles

\* a file with an upper-case extension was loaded
C24_UpperCaseLoaded ==
    /\ Filed
    /\ input.fn = "LoadMetaDatabaseFromFile"
    /\ input.arg.path = <<"schema", "JSON">>
    /\ output.err = <<>>
    /\ output.value = MetaDatabase("testdb", <<UsersBase>>)

\* the part of C24 the code keeps: with the file readable (or for a save), an
\* unknown extension gives the unknown-extension error, no snapshot, no write
C24_ReadableUnknownExtension ==
    [][ (pc = "file" /\ pc' = "filed"
         /\ CodecOf(ToLower(Ext(input.arg.path))) = ""
         /\ (input.fn = "SaveMetaDatabaseToFile" \/ input.arg.path \in DOMAIN files)) =>
          /\ output'.err # <<>>
          /\ output'.err[1] = "unknown file extension: "
          /\ output'.err[2] = ToLower(Ext(input.arg.path))
          /\ output'.value = Nil
          /\ files' = files ]_vars

-----------------------------------------------------------------------------
(* bq_loader.go: introspection of a BigQuery project *)

MaxDatasets == 2

\* mapBQType: the data type of a schema field
RECURSIVE mapBQType(_)
mapBQType(field) ==
    LET fts == field.Type
        t == CASE fts \in {"INTEGER", "INT64"} -> SimpleType("IntData")
               [] fts \in {"FLOAT", "FLOAT64"} -> SimpleType("FloatData")
               [] fts \in {"BOOLEAN", "BOOL"} -> SimpleType("BooleanData")
               [] fts = "STRING" -> SimpleType("TextData")
               [] fts = "BYTES" -> SimpleType("ByteaData")
               [] fts \in {"STRUCT", "RECORD"} ->
                    StructType([i \in 1..Len(field.Schema) |->
                                  [Name |-> field.Schema[i].Name,
                                   DataType |-> mapBQType(field.Schema[i])]])
               [] OTHER -> [kind |-> "CustomData", name |-> ObjectName(<<fts>>)]
    IN  IF field.Repeated THEN ArrayType(t) ELSE t

\* mapBQSchema: one BQColumn per schema field, in schema order
mapBQSchema(schema) ==
    [i \in 1..Len(schema) |->
        [Name |-> schema[i].Name,
         Mode |-> IF schema[i].Repeated THEN "REPEATED"
                  ELSE IF schema[i].Required THEN "REQUIRED" ELSE "NULLABLE",
         Description |-> schema[i].Description,
         DataType |-> mapBQType(schema[i])]]

\* an iterator of the client: the items it yields before it ends, with
\* iterator.Done (fails = FALSE) or with an error (fails = TRUE)
Listing(items, fails) == [items |-> items, fails |-> fails]

\* the *BQTable loadBQTables builds from a table handle and its metadata
BQTableOf(t, md) ==
    [Name |-> ObjectName(<<t.ProjectID, t.DatasetID, t.TableID>>),
     Type |-> md.Type,
     NumRows |-> md.NumRows,
     TotalBytes |-> md.NumBytes,
     Description |-> md.Description,
     Labels |-> md.Labels,
     Schema |-> IF md.Schema = <<>> THEN <<>> ELSE mapBQSchema(md.Schema),
     ViewQuery |-> md.ViewQuery]

\* the loop of loadBQTables from the i-th table the iterator yields on
RECURSIVE loadBQTablesFrom(_, _, _)
loadBQTablesFrom(ds, i, tables) ==
    IF i > Len(ds.Tables.items)
    THEN IF ds.Tables.fails
         THEN Loaded(Nil, Errorf("failed to list tables in ", <<ds.DatasetID, ": ", "backend error">>))
         ELSE Loaded(tables, <<>>)
    ELSE LET t == ds.Tables.items[i]
         IN  IF t.Metadata = Nil
             THEN loadBQTablesFrom(ds, i + 1, tables)
             ELSE loadBQTablesFrom(ds, i + 1, Append(tables, BQTableOf(t, t.Metadata)))

\* loadBQTables taking every table whose metadata fetch fails
loadBQTablesKeepingFailed(ds) ==
    IF ds.Tables.fails
    THEN Loaded(Nil, Errorf("failed to list tables in ", <<ds.DatasetID, ": ", "backend error">>))
    ELSE Loaded([i \in 1..Len(ds.Tables.items) |->
                   LET t == ds.Tables.items[i]
                   IN  [Name |-> ObjectName(<<t.ProjectID, t.DatasetID, t.TableID>>)]], <<>>)

\* loadBQTables(ctx, ds)
loadBQTables(ds) == loadBQTablesFrom(ds, 1, <<>>)

\* the loop of LoadBigQuery from the i-th dataset the iterator yields on
RECURSIVE LoadBigQueryFrom(_, _, _, _)
LoadBigQueryFrom(client, projectID, i, datasets) ==
    IF i > Len(client.Datasets.items)
    THEN IF client.Datasets.fails
         THEN Loaded(Nil, Errorf("failed to list datasets: ", <<"backend error">>))
         ELSE Loaded([ProjectId |-> projectID, FriendlyName |-> projectID,
                      Datasets |-> datasets], <<>>)
    ELSE LET ds == client.Datasets.items[i]
         IN  IF ds.Metadata = Nil
             THEN LoadBigQueryFrom(client, projectID, i + 1, datasets)
             ELSE LET r == loadBQTables(ds)
                  IN  IF r.err # <<>>
                      THEN Loaded(Nil, r.err)
                      ELSE LoadBigQueryFrom(client, projectID, i + 1,
                             Append(datasets,
                                    [Name |-> ObjectName(<<ds.ProjectID, ds.DatasetID>>),
                                     Location |-> ds.Metadata.Location,
                                     Description |-> ds.Metadata.Description,
                                     Labels |-> ds.Metadata.Labels,
                                     Tables |-> r.value]))

\* LoadBigQuery(ctx, client, projectID)
LoadBigQuery(client, projectID) == LoadBigQueryFrom(client, projectID, 1, <<>>)

(* the projects of the load specification *)

\* a bigquery.FieldSchema
FieldSchema(name, type, required, repeated, schema) ==
    [Name |-> name, Type |-> type, Required |-> required, Repeated |-> repeated,
     Description |-> "", Schema |-> schema]

TableIDs == <<"users", "orders", "items">>

\* the metadata the fetch for a table returns when it succeeds: of a table
\* with plain and repeated fields, of a view, of a table with a nested field
MetadataOf(tableID) ==
    CASE tableID = "users" ->
           [Type |-> "TABLE", NumRows |-> 3, NumBytes |-> 96, Description |-> "people",
            Labels |-> NilMap, ViewQuery |-> "",
            Schema |-> <<FieldSchema("id", "INTEGER", TRUE, FALSE, <<>>),
                         FieldSchema("tags", "STRING", FALSE, TRUE, <<>>)>>]
      [] tableID = "orders" ->
           [Type |-> "VIEW", NumRows |-> 0, NumBytes |-> 0, Description |-> "",
            Labels |-> NilMap, ViewQuery |-> "SELECT 1", Schema |-> <<>>]
      [] OTHER ->
           [Type |-> "TABLE", NumRows |-> 0, NumBytes |-> 0, Description |-> "",
            Labels |-> NilMap, ViewQuery |-> "",
            Schema |-> <<FieldSchema("address", "RECORD", FALSE, FALSE,
                                     <<FieldSchema("city", "STRING", FALSE, FALSE, <<>>)>>)>>]

\* what the backend answers for a dataset: whether its metadata can be
\* fetched, for each table it lists whether that table's metadata can be
\* fetched, and whether the listing of its tables ends with an error (the
\* tables of a dataset whose metadata cannot be fetched are never listed)
DatasetAnswers ==
    {a \in [fetched : BOOLEAN,
            tables : UNION {[1..k -> BOOLEAN] : k \in 0..MaxList},
            fails : BOOLEAN] : ~a.fetched => a.tables = <<>>}

DatasetMetadata == [Location |-> "EU", Description |-> "", Labels |-> NilMap]

DatasetIDs == <<"sales", "staging", "archive">>

\* the i-th listed dataset with the answers a: handles in a fixed order, each
\* with the metadata the fetch returns or Nil when the fetch fails
ListedDataset(i, a) ==
    [ProjectID |-> "proj", DatasetID |-> DatasetIDs[i],
     Metadata |-> IF a.fetched THEN DatasetMetadata ELSE Nil,
     Tables |-> Listing([j \in 1..Len(a.tables) |->
                            [ProjectID |-> "proj", DatasetID |-> DatasetIDs[i],
                             TableID |-> TableIDs[j],
                             Metadata |-> IF a.tables[j] THEN MetadataOf(TableIDs[j]) ELSE Nil]],
                        a.fails)]

\* the client of a project whose datasets answer as in answers
Client(answers, fails) ==
    [Datasets |-> Listing([i \in 1..Len(answers) |-> ListedDataset(i, answers[i])], fails)]

LoadInit ==
    /\ pc = "load"
    /\ input = NoCall
    /\ output = Nil
    /\ files = NoFiles
    /\ current = NilDatabase
    /\ desired = NilDatabase
    /\ emitted = <<>>
    /\ changes = <<>>

\* LoadBigQuery is called with a client and returns
LoadBigQueryCall ==
    /\ pc = "load"
    /\ \E k \in 0..MaxDatasets :
          \E answers \in [1..k -> DatasetAnswers], fails \in BOOLEAN :
             LET client == Client(answers, fails)
             IN  /\ input' = [fn |-> "LoadBigQuery",
                               arg |-> [client |-> client, projectID |-> "proj"]]
                 /\ output' = LoadBigQuery(client, "proj")
    /\ pc' = "loaded"
    /\ UNCHANGED <<current, desired, emitted, changes, files>>

LoadNext == LoadBigQueryCall

LoadSpec == LoadInit /\ [][LoadNext]_vars

-----------------------------------------------------------------------------
(* C25: a table whose metadata cannot be fetched is skipped *)

\* LoadBigQuery has returned
ProjectLoaded == pc = "loaded"

\* the metadata of the listed dataset or table could be fetched
Fetched(x) == x.Metadata # Nil

\* the subsequence of the listed datasets or tables whose metadata could be
\* fetched, in listing order
RECURSIVE KeepFetched(_)
KeepFetched(s) ==
    IF s = <<>> THEN <<>>
    ELSE IF Fetched(Head(s)) THEN <<Head(s)>> \o KeepFetched(Tail(s))
    ELSE KeepFetched(Tail(s))

\* the table identifiers of a sequence of listed tables, and of loaded tables
ListedIDs(ts) == [i \in 1..Len(ts) |-> ts[i].TableID]
LoadedIDs(ts) == [i \in 1..Len(ts) |-> ts[i].Name.Idents[3]]

\* the listed datasets LoadBigQuery reads the tables of
Visited(client) == KeepFetched(client.Datasets.items)

\* a listing the load consumes ends with an error
ListingFailed(client) ==
    \/ client.Datasets.fails
    \/ \E i \in 1..Len(Visited(client)) : Visited(client)[i].Tables.fails

\* C25: when LoadBigQuery succeeds, the datasets it returns are the listed
\* datasets whose metadata could be fetched, in listing order, and each holds
\* exactly the listed tables whose metadata fetch succeeded, in listing order;
\* a failed metadata fetch never makes the load fail: it fails exactly when a
\* listing of datasets or of tables it consumes ends with an error, and then
\* it returns an error and no project.
C25_SkipUnfetchedTables ==
    ProjectLoaded =>
      LET client == input.arg.client
          visited == Visited(client)
      IN  IF ListingFailed(client)
          THEN output.err # <<>> /\ output.value = Nil
          ELSE /\ output.err = <<>>
               /\ Len(output.value.Datasets) = Len(visited)
               /\ \A i \in 1..Len(visited) :
                    /\ output.value.Datasets[i].Name.Idents[2] = visited[i].DatasetID
                    /\ LoadedIDs(output.value.Datasets[i].Tables)
                         = ListedIDs(KeepFetched(visited[i].Tables.items))

\* a load succeeded although the metadata of the first of two listed tables
\* could not be fetched, and the dataset holds the second table only
C25_Witness ==
    /\ ProjectLoaded
    /\ output.err = <<>>
    /\ Len(input.arg.client.Datasets.items) = 1
    /\ LET ds == input.arg.client.Datasets.items[1]
       IN  /\ Len(ds.Tables.items) = 2
           /\ ~Fetched(ds.Tables.items[1])
           /\ Fetched(ds.Tables.items[2])
    /\ LoadedIDs(output.value.Datasets[1].Tables) = <<"orders">>

\* a load was aborted by a table listing that failed
C25_Aborted ==
    /\ ProjectLoaded
    /\ output.value = Nil
    /\ ~input.arg.client.Datasets.fails
    /\ output.err[1] = "failed to list tables in "

-----------------------------------------------------------------------------
(* C26: Postgres constraints by type *)

\* what a Postgres constraint of each type becomes: the kind of its
\* specification, "" for a type that is dropped
MappedKind(c) ==
    CASE c.Type \in {"p", "u"} -> "UniqueItem"
      [] c.Type = "c" -> "CheckItem"
      [] OTHER -> ""

\* tc is what the claim says the Postgres constraint c becomes
MappedFrom(tc, c) ==
    IF MappedKind(c) = "" THEN tc = Nil
    ELSE /\ tc # Nil
         /\ tc.Name = c.Name
         /\ tc.Spec.kind = MappedKind(c)
         /\ c.Type \in {"p", "u"} =>
              /\ tc.Spec.IsPrimary = (c.Type = "p")
              /\ tc.Spec.Columns = c.Columns

\* the entries of s that are constraints of a mapped type, in order
RECURSIVE MappedOnly(_)
MappedOnly(s) ==
    IF s = <<>> THEN <<>>
    ELSE IF MappedKind(Head(s)) # "" THEN <<Head(s)>> \o MappedOnly(Tail(s))
    ELSE MappedOnly(Tail(s))

\* the constraint elements of a converted table that are no foreign keys, in order
RECURSIVE PlainConstraints(_)
PlainConstraints(elems) ==
    IF elems = <<>> THEN <<>>
    ELSE IF Head(elems).kind = "constraint" /\ Head(elems).con.Spec.kind # "ReferenceItem"
         THEN <<Head(elems).con>> \o PlainConstraints(Tail(elems))
         ELSE PlainConstraints(Tail(elems))

\* C26: PGConstraintToTableConstraint turns a constraint of type "p" into a
\* UniqueItem with IsPrimary true, of type "u" into a UniqueItem with
\* IsPrimary false, both with the constraint's name and its column list, of
\* type "c" into a CheckItem with the constraint's name, and of any other
\* type into nil; the constraint elements of a table converted by
\* PGTableToMetaTable that are no foreign keys are, one for one and in order,
\* the table's constraints of the types "p", "u" and "c".
C26_ConstraintTypes ==
    /\ (Converted /\ input.fn = "PGConstraintToTableConstraint" /\ input.arg # Nil) =>
          MappedFrom(output, input.arg)
    /\ (Converted /\ input.fn = "PGTableToMetaTable" /\ input.arg # Nil) =>
          LET kept == MappedOnly(input.arg.Constraints)
              plain == PlainConstraints(output.Elements)
          IN  /\ Len(plain) = Len(kept)
              /\ \A i \in 1..Len(kept) : MappedFrom(plain[i], kept[i])

\* a table with an exclusion constraint and a primary key was converted: the
\* primary key is its only constraint element
C26_Witness ==
    /\ Converted
    /\ input.fn = "PGTableToMetaTable"
    /\ input.arg # Nil
    /\ Len(input.arg.Constraints) = 2
    /\ input.arg.Constraints[1].Type = "x"
    /\ input.arg.Constraints[2].Type = "p"
    /\ input.arg.ForeignKeys = <<>>
    /\ Len(PlainConstraints(output.Elements)) = 1

\* a trigger constraint was converted to nil
C26_TriggerDropped ==
    /\ Converted
    /\ input.fn = "PGConstraintToTableConstraint"
    /\ input.arg # Nil
    /\ input.arg.Type = "t"
    /\ output = Nil

-----------------------------------------------------------------------------
(* C27: sorting only reorders *)

\* how often x occurs in the list s
Multiplicity(s, x) == Cardinality({i \in 1..Len(s) : s[i] = x})

\* a and b hold the same entries, each as often
SameMultiset(a, b) ==
    /\ Len(a) = Len(b)
    /\ \A i \in 1..Len(a) : Multiplicity(a, a[i]) = Multiplicity(b, a[i])

\* C27: once SortChanges has run, on a caller's list or at the end of
\* DiffDatabase, the list it leaves has the length of the list it was given
\* and holds each change as often as that list does: what DiffDatabase returns
\* are the changes its passes emitted, none lost and none duplicated.
C27_SortPermutes == pc \in {"sorted", "diffed"} => SameMultiset(emitted, changes)

\* SortChanges reordered a list that holds the same change twice
C27_Witness ==
    /\ pc = "sorted"
    /\ changes # emitted
    /\ \E i, j \in 1..Len(emitted) : i < j /\ emitted[i] = emitted[j]

\* DiffDatabase returned a list that sorting had to reorder
C27_DiffReordered == pc = "diffed" /\ changes # emitted /\ Len(changes) >= 3

-----------------------------------------------------------------------------
(* C28: no contradictory changes *)

\* the column a column-level change is about, the constraint a
\* constraint-level change is about
SubjectColumn(c) ==
    CASE c.type = "AddColumn" -> c.Column.Name
      [] c.type = "DropColumn" -> c.ColumnName
      [] c.type = "AlterColumn" -> c.NewColumn.Name
SubjectConstraint(c) ==
    IF c.type = "AddConstraint" THEN c.Constraint.Name ELSE c.ConstraintName

ColumnKinds == {"AddColumn", "DropColumn", "AlterColumn"}
ConstraintKinds == {"AddConstraint", "DropConstraint"}

\* the positions of the returned list that hold a change of one of the kinds about table n
AtAny(kinds, n) == UNION {At(k, n) : k \in kinds}

\* C28: in the list DiffDatabase returns, no table simple name has both an
\* AddTable and a DropTable; a name that has one of them has no AddColumn,
\* DropColumn, AlterColumn, AddConstraint or AlterTableOptions; and for a
\* table of both snapshots every column name is the subject of at most one
\* change among AddColumn, DropColumn and AlterColumn, every constraint name
\* of at most one among AddConstraint and DropConstraint.
C28_NoContradiction ==
    Returned =>
      \A n \in {SubjectTable(changes[i]) : i \in 1..Len(changes)} :
        /\ At("AddTable", n) = {} \/ At("DropTable", n) = {}
        /\ AtAny({"AddTable", "DropTable"}, n) # {} =>
              AtAny(ColumnKinds \cup {"AddConstraint", "AlterTableOptions"}, n) = {}
        /\ n \in InBoth =>
              /\ \A i, j \in AtAny(ColumnKinds, n) :
                    SubjectColumn(changes[i]) = SubjectColumn(changes[j]) => i = j
              /\ \A i, j \in AtAny(ConstraintKinds, n) :
                    SubjectConstraint(changes[i]) = SubjectConstraint(changes[j]) => i = j

\* a diff of a table of both snapshots added one column and dropped another,
\* while another table was dropped
C28_Witness ==
    /\ Returned
    /\ \E n \in InBoth :
          /\ At("AddColumn", n) # {}
          /\ At("DropColumn", n) # {}
    /\ \E n \in OnlyCurrent : At("DropTable", n) # {}

\* a diff of a table of both snapshots altered one column and changed a constraint
C28_AlteredReached ==
    /\ Returned
    /\ \E n \in InBoth : At("AlterColumn", n) # {} /\ AtAny(ConstraintKinds, n) # {}

-----------------------------------------------------------------------------
(* C29: the two directions of a diff mirror each other *)

\* d is, in the diff of the opposite direction, the change that mirrors c:
\* the same table (by simple name) and the same column or constraint, added
\* where c drops and dropped where c adds, altered with old and new exchanged
Dual(c, d) ==
    /\ SubjectTable(d) = SubjectTable(c)
    /\ CASE c.type = "AddTable" -> d.type = "DropTable"
         [] c.type = "DropTable" -> d.type = "AddTable"
         [] c.type = "AddColumn" -> d.type = "DropColumn" /\ d.ColumnName = c.Column.Name
         [] c.type = "DropColumn" -> d.type = "AddColumn" /\ d.Column.Name = c.ColumnName
         [] c.type = "AlterColumn" ->
              /\ d.type = "AlterColumn"
              /\ d.OldColumn = c.NewColumn
              /\ d.NewColumn = c.OldColumn
         [] c.type = "AddConstraint" ->
              d.type = "DropConstraint" /\ d.ConstraintName = c.Constraint.Name
         [] c.type = "DropConstraint" ->
              d.type = "AddConstraint" /\ d.Constraint.Name = c.ConstraintName
         [] c.type = "AlterTableOptions" ->
              /\ d.type = "AlterTableOptions"
              /\ d.OldOptions = c.NewOptions /\ d.NewOptions = c.OldOptions
              /\ d.OldComment = c.NewComment /\ d.NewComment = c.OldComment

\* the changes the duality speaks of: table changes, and the column,
\* constraint and option changes of a table of both snapshots
Mirrored(c) == c.type \in {"AddTable", "DropTable"} \/ SubjectTable(c) \in InBoth

\* every mirrored change of the list a has its dual in the list b
DualIn(a, b) ==
    \A i \in 1..Len(a) : Mirrored(a[i]) => \E j \in 1..Len(b) : Dual(a[i], b[j])

\* C29: for snapshots with unique table names and unique column and
\* constraint names per table, the list DiffDatabase(current, desired)
\* returns and any list DiffDatabase(desired, current) can return mirror each
\* other: AddTable t in one exactly when DropTable t in the other; for a
\* table of both, AddColumn exactly when DropColumn, AddConstraint exactly
\* when DropConstraint, AlterColumn exactly when AlterColumn with old and new
\* column exchanged, AlterTableOptions exactly when AlterTableOptions with
\* old and new exchanged.
C29_Duality ==
    (Returned /\ UniqueNames(current) /\ UniqueNames(desired)) =>
        \A reverse \in EmittedOutcomes(desired, current) :
            DualIn(changes, reverse) /\ DualIn(reverse, changes)

\* a diff between snapshots with unique names added a table, and in a table
\* of both snapshots added a column and altered another
C29_Witness ==
    /\ Returned
    /\ UniqueNames(current)
    /\ UniqueNames(desired)
    /\ \E n \in OnlyDesired : At("AddTable", n) # {}
    /\ \E n \in InBoth : At("AddColumn", n) # {} /\ At("AlterColumn", n) # {}

\* a diff between snapshots with unique names changed the options of a table
C29_OptionsReached ==
    /\ Returned
    /\ UniqueNames(current)
    /\ UniqueNames(desired)
    /\ \E i \in 1..Len(changes) : changes[i].type = "AlterTableOptions"

\* a diff between snapshots with unique names added a constraint to a table of both
C29_ConstraintReached ==
    /\ Returned
    /\ UniqueNames(current)
    /\ UniqueNames(desired)
    /\ \E n \in InBoth : At("AddConstraint", n) # {}

-----------------------------------------------------------------------------
(* C30: the order of tables and elements does not matter *)

\* the lists that hold the entries of s in any order
Reordered(s) == {[i \in 1..Len(s) |-> s[p[i]]] : p \in Perms(1..Len(s))}

\* the snapshots that differ from db in the order of its tables, or in the
\* order of the elements of one of its tables
Reorderings(db) ==
    IF db.isNil THEN {db}
    ELSE {[db EXCEPT !.Tables = ts] : ts \in Reordered(db.Tables)}
         \cup UNION {{[db EXCEPT !.Tables[i].Elements = es] :
                         es \in Reordered(db.Tables[i].Elements)} :
                     i \in 1..Len(db.Tables)}

\* the same change; an AddTable carries the table as it was given, so two
\* AddTable changes are the same when their tables differ in the order of
\* their elements only
SameChange(c, d) ==
    IF c.type = "AddTable" /\ d.type = "AddTable"
    THEN /\ [c.Table EXCEPT !.Elements = <<>>] = [d.Table EXCEPT !.Elements = <<>>]
         /\ SameMultiset(c.Table.Elements, d.Table.Elements)
    ELSE c = d

\* a and b hold the same changes, each as often
SameChanges(a, b) ==
    /\ Len(a) = Len(b)
    /\ \A i \in 1..Len(a) :
          Cardinality({j \in 1..Len(a) : SameChange(a[j], a[i])})
            = Cardinality({j \in 1..Len(b) : SameChange(b[j], a[i])})

\* C30 as stated: for snapshots with unique table names and unique column and
\* constraint names per table, every list DiffDatabase can build from
\* current or desired with its tables reordered, or with the elements of one
\* of its tables reordered, holds exactly the changes of the list it
\* returned, each as often.
C30_SameChangesExactly ==
    (Returned /\ UniqueNames(current) /\ UniqueNames(desired)) =>
        /\ \A cur \in Reorderings(current) :
              \A e \in EmittedOutcomes(cur, desired) : SameMultiset(e, changes)
        /\ \A des \in Reorderings(desired) :
              \A e \in EmittedOutcomes(current, des) : SameMultiset(e, changes)

\* C30, amended: under the same reorderings the list holds the same changes
\* with the same multiplicities, where the table an AddTable carries is
\* compared up to the order of its elements (it is the table of desired as it
\* was given); every other change is the same value.
C30_OrderInsensitive ==
    (Returned /\ UniqueNames(current) /\ UniqueNames(desired)) =>
        /\ \A cur \in Reorderings(current) :
              \A e \in EmittedOutcomes(cur, desired) : SameChanges(e, changes)
        /\ \A des \in Reorderings(desired) :
              \A e \in EmittedOutcomes(current, des) : SameChanges(e, changes)

\* a diff between two-table snapshots with unique names, one of whose tables
\* has a column and a constraint, returned several kinds of changes
C30_Witness ==
    /\ Returned
    /\ UniqueNames(current)
    /\ UniqueNames(desired)
    /\ Len(GetTables(current)) = 2
    /\ Len(GetTables(desired)) = 2
    /\ \E i \in 1..2 : Len(ConstraintsOf(GetTables(desired)[i])) >= 1
    /\ Len(changes) >= 2

\* a diff added a table that has a column and a constraint
C30_AddedTableWithElements ==
    /\ Returned
    /\ UniqueNames(current)
    /\ UniqueNames(desired)
    /\ \E i \in 1..Len(changes) :
          /\ changes[i].type = "AddTable"
          /\ Len(ColumnsOf(changes[i].Table)) >= 1
          /\ Len(ConstraintsOf(changes[i].Table)) >= 1

=============================================================================
